---- MODULE Spec2Model ----
(***************************************************************************)
(* uk_address_matcher: the deterministic match pass                        *)
(* (linking_model/exact_matching/matching_stages.py) and the CTE pipeline  *)
(* builder (sql_pipeline/runner.py), with the construction of its Stage    *)
(* values (sql_pipeline/steps.py, core/sql_pipeline.py).                   *)
(* The trie stage is also applied on its own, in its two implementations  *)
(* (resolve_with_trie.py behind its pre-filter, exact_matching_model.py).  *)
(* SpecExact applies the exact-match stage on its own, SpecCTE is the base *)
(* class CTEPipeline, SpecConstruct the constructor of DuckDBPipeline on a *)
(* connection that may already hold a table.                               *)
(*                                                                         *)
(* Relations are sets (rows with unique row ids) or bags (results of       *)
(* joins and of UNION ALL) of records.  SQL NULL of an id column is 0,     *)
(* ids are positive.                                                       *)
(***************************************************************************)
EXTENDS Integers, Sequences, FiniteSets, Bags, TLC

\* ------------------------------------------------------------------ bounds
MaxFuzzy == 2
MaxCanon == 2
MaxEnabled == 2
MaxCalls == 3
MaxBuilt == 2

\* --------------------------------------------------------------- constants
NULL == 0
CanonicalIdBase == 100

EXACT == "EXACT"
TRIE == "TRIE"
UNMATCHED == "UNMATCHED"
NullReason == "NULL"

EXACT_MATCHES == "exact_matches"
TRIE_STAGE == "trie"

\* StageName (enum) and the registry keyed by it
StageName == {EXACT_MATCHES, TRIE_STAGE}

_ALWAYS_ON == <<EXACT_MATCHES>>

\* names a caller may write in enabled_stage_names: the enum values and a
\* string that is no value of the enum
StageInput == StageName \cup {"bogus"}

\* ------------------------------------------------------------- input data
\* address_tokens of a cleaned address; original_address_concat is the text
\* the tokens were cut from, so equal concat is equal tokens
\* postcodes are character sequences; 11 and 12 share a postcode group, 21
\* is in a group of its own.  A row's content is drawn by its code
AddrCode(k) == IF k % 2 = 1 THEN <<"b">> ELSE <<"a", "b">>
FuzzyPostcodeCode(k) == IF k <= 2 THEN <<1, 1>> ELSE <<2, 1>>
CanonPostcodeCode(k) == IF k <= 2 THEN <<1, 1>> ELSE <<1, 2>>
ContentCodes == 1..4

IsSortedCodes(s) == \A i \in 1..(Len(s) - 1) : s[i] <= s[i + 1]

\* a fuzzy row as the cleaning layer hands it over: not yet resolved
FuzzyRow(i, k) ==
    [ukam_address_id |-> i,
     address_tokens |-> AddrCode(k),
     postcode |-> FuzzyPostcodeCode(k),
     resolved_canonical_id |-> NULL,
     match_reason |-> UNMATCHED]

CanonRow(i, k) ==
    [ukam_address_id |-> i,
     unique_id |-> CanonicalIdBase + i,
     address_tokens |-> AddrCode(k),
     postcode |-> CanonPostcodeCode(k)]

VARIABLES
    df_addresses_to_match,          \* the fuzzy input relation
    df_addresses_to_search_within,  \* the canonical relation
    enabled_stage_names,            \* the caller's optional stage list
    explain,                        \* explain flag
    pc,                             \* position in run_deterministic_match_pass
    ordered,                        \* the ordered stage list
    stage_idx,                      \* loop position in ordered (1-based)
    matches_union,                  \* [is_none, rel]: None or a bag of rows
    df_fuzzy_unmatched,             \* the subset handed to the current stage
    stages_run,                     \* stages _run_stage was called for, in order
    result,                         \* [kind, rel]: the value returned
    error,                          \* the exception raised, kind "none" when none
    columns,                        \* [fuzzy, canonical]: the columns each
                                    \* relation passed in declares
    executed                        \* stages whose pipeline the engine ran

matchVars == <<df_addresses_to_match, df_addresses_to_search_within,
               enabled_stage_names, explain, pc, ordered, stage_idx,
               matches_union, df_fuzzy_unmatched, stages_run, result, error,
               columns, executed>>

VARIABLES
    queue,                    \* CTEPipeline.queue: sequence of [sql, alias]
    spent,                    \* CTEPipeline.spent
    _materialised_sql_blocks, \* sequence of [sql, name] checkpoint records
    _current_output_alias,
    _step_counter,
    con,                      \* the connection: registered names, temp tables,
                              \* prelude calls
    calls                     \* outcome of every pipeline call so far, in order

pipeVars == <<queue, spent, _materialised_sql_blocks, _current_output_alias,
              _step_counter, con, calls>>

\* Stage values under construction.  A Python object that can be changed in
\* place (a list, a dict) is an entry of heap, named by its index; a Stage
\* field holds such an index, 0 for None
VARIABLES
    heap,                     \* index -> content of a list or dict (its keys)
    built                     \* outcome of every Stage construction so far

stageVars == <<heap, built>>

VARIABLES
    implementation,                 \* which _resolve_with_trie is applied
    fuzzy_addresses,                \* the fuzzy relation the stage reads
    canonical_addresses,            \* the canonical relation bound to it
    canonical_addresses_restricted, \* the canonical rows the tries are built
                                    \* from
    postcode_group_tries,           \* [postcode_group, trie]: one per group
    raw_trie_matches,               \* [fuzzy_ukam_address_id,
                                    \* canonical_ukam_address_id]: the lookups
    fuzzy_with_resolved_matches,    \* the output of the stage, a bag of rows
    trie_pc                         \* "input", "done"; "idle" when unused

trieVars == <<implementation, fuzzy_addresses, canonical_addresses,
              canonical_addresses_restricted, postcode_group_tries,
              raw_trie_matches, fuzzy_with_resolved_matches, trie_pc>>

vars == <<matchVars, pipeVars, stageVars, trieVars>>

\* ------------------------------------------------------- relation helpers
Ids(rel) == { r.ukam_address_id : r \in rel }

\* a bag restricted to the rows whose row id is among ids
BagRowsWithIds(B, ids) ==
    [r \in { x \in DOMAIN B : x.ukam_address_id \in ids } |-> B[r]]

\* LEFT(postcode, LENGTH(postcode) - 1)
postcode_group(p) == SubSeq(p, 1, Len(p) - 1)

IsSuffix(s, t) ==
    /\ Len(s) <= Len(t)
    /\ \A i \in 1..Len(s) : s[i] = t[Len(t) - Len(s) + i]

\* canonical_addresses_restricted, "exact" strategy: canonical rows whose
\* postcode occurs among the fuzzy rows of the stage; unique_id is renamed
RestrictCanonicalExact(fuzzy, canonical) ==
    { [ukam_address_id |-> c.ukam_address_id,
       canonical_unique_id |-> c.unique_id,
       address_tokens |-> c.address_tokens,
       postcode |-> c.postcode,
       postcode_group |-> postcode_group(c.postcode)] :
        c \in { x \in canonical : \E f \in fuzzy : f.postcode = x.postcode } }

\* canonical_addresses_restricted, "drop_last_char" strategy
RestrictCanonicalDropLastChar(fuzzy, canonical) ==
    { [ukam_address_id |-> c.ukam_address_id,
       canonical_unique_id |-> c.unique_id,
       address_tokens |-> c.address_tokens,
       postcode |-> c.postcode,
       postcode_group |-> postcode_group(c.postcode)] :
        c \in { x \in canonical :
                  \E f \in fuzzy :
                      postcode_group(f.postcode) = postcode_group(x.postcode) } }

\* ---------------------------------------------------- exact-match stage
\* the window ordered the other way: the largest id of a group is kept
DedupCanonicalLast(restricted) ==
    { c \in restricted :
        \A d \in restricted :
            (d.address_tokens = c.address_tokens /\ d.postcode = c.postcode)
                => c.canonical_unique_id >= d.canonical_unique_id }

\* a join against the canonical rows as they are, duplicates included
DedupCanonicalNone(restricted) == restricted

\* ROW_NUMBER() OVER (PARTITION BY original_address_concat, postcode
\*                    ORDER BY canonical_unique_id) = 1
DedupCanonical(restricted) ==
    { c \in restricted :
        \A d \in restricted :
            (d.address_tokens = c.address_tokens /\ d.postcode = c.postcode)
                => c.canonical_unique_id <= d.canonical_unique_id }

ExactPartners(f, canon) ==
    { c \in canon : f.address_tokens = c.address_tokens
                    /\ f.postcode = c.postcode }

\* an ELSE branch that yields SQL NULL
ExactElseReasonNull(f) == NullReason

\* CASE ... ELSE fuzzy.match_reason END of a fuzzy row without a partner
ExactElseReason(f) == f.match_reason

\* the annotated_exact_matches fragment: fuzzy LEFT JOIN deduplicated canon
AnnotateExactMatches(fuzzy, canonical) ==
    LET canon == DedupCanonical(RestrictCanonicalExact(fuzzy, canonical))
        matched ==
            { [ukam_address_id |-> f.ukam_address_id,
               address_tokens |-> f.address_tokens,
               postcode |-> f.postcode,
               resolved_canonical_id |-> c.canonical_unique_id,
               match_reason |-> EXACT] :
                 <<f, c>> \in { p \in fuzzy \X canon :
                                  p[2] \in ExactPartners(p[1], canon) } }
        unmatched ==
            { [ukam_address_id |-> f.ukam_address_id,
               address_tokens |-> f.address_tokens,
               postcode |-> f.postcode,
               resolved_canonical_id |-> f.resolved_canonical_id,
               match_reason |-> ExactElseReason(f)] :
                 f \in { x \in fuzzy : ExactPartners(x, canon) = {} } }
    IN  SetToBag(matched \cup unmatched)

\* ------------------------------------------------------------ trie stage
\* canonical rows of the fuzzy row's postcode group that the fuzzy tokens
\* are a suffix of: the addresses find_address can return
TrieCandidates(f, restricted) ==
    { c \in restricted :
        /\ c.postcode_group = postcode_group(f.postcode)
        /\ IsSuffix(f.address_tokens, c.address_tokens) }

\* the outcomes of find_address over the tries of the stage, one canonical
\* ukam_address_id (or NULL) per fuzzy row id; which address a trie returns
\* when several share the suffix is the trie primitive's choice
TrieLookupsOver(fuzzy, restricted) ==
    { g \in [Ids(fuzzy) -> {NULL} \cup Ids(restricted)] :
        \A f \in fuzzy :
           LET cands == TrieCandidates(f, restricted)
           IN  IF cands = {}
               THEN g[f.ukam_address_id] = NULL
               ELSE IF Cardinality(cands) = 1
               THEN g[f.ukam_address_id] \in Ids(cands)
               ELSE g[f.ukam_address_id] \in Ids(cands) \cup {NULL} }

TrieLookups(fuzzy, canonical) ==
    TrieLookupsOver(fuzzy, RestrictCanonicalDropLastChar(fuzzy, canonical))

\* the stage with an inner join in its last fragment: only the rows a trie
\* resolved come out
ResolveWithTrieInnerJoin(fuzzy, canonical, find) ==
    LET restricted == RestrictCanonicalDropLastChar(fuzzy, canonical)
    IN  SetToBag(
          { [ukam_address_id |-> a.ukam_address_id,
             address_tokens |-> a.address_tokens,
             postcode |-> a.postcode,
             resolved_canonical_id |-> c.canonical_unique_id,
             match_reason |-> TRIE] :
               <<a, c>> \in { p \in fuzzy \X restricted :
                   /\ find[p[1].ukam_address_id] # NULL
                   /\ find[p[1].ukam_address_id] = p[2].ukam_address_id } })

\* fragments raw_trie_matches, trie_match_candidates and
\* fuzzy_with_resolved_matches, for the lookups find
ResolveWithTrie(fuzzy, canonical, find) ==
    LET restricted == RestrictCanonicalDropLastChar(fuzzy, canonical)
        candidates ==
            { [fuzzy_ukam_address_id |-> f.ukam_address_id,
               canonical_ukam_address_id |-> c.ukam_address_id,
               canonical_unique_id |-> c.canonical_unique_id] :
                 <<f, c>> \in { p \in fuzzy \X restricted :
                     /\ postcode_group(p[1].postcode)
                            \in { r.postcode_group : r \in restricted }
                     /\ find[p[1].ukam_address_id] # NULL
                     /\ find[p[1].ukam_address_id] = p[2].ukam_address_id } }
        matched ==
            { [ukam_address_id |-> a.ukam_address_id,
               address_tokens |-> a.address_tokens,
               postcode |-> a.postcode,
               resolved_canonical_id |-> m.canonical_unique_id,
               match_reason |-> TRIE] :
                 <<a, m>> \in { p \in fuzzy \X candidates :
                     p[1].ukam_address_id = p[2].fuzzy_ukam_address_id } }
        unmatched ==
            { [ukam_address_id |-> a.ukam_address_id,
               address_tokens |-> a.address_tokens,
               postcode |-> a.postcode,
               resolved_canonical_id |-> a.resolved_canonical_id,
               match_reason |-> a.match_reason] :
                 a \in { x \in fuzzy :
                     \A m \in candidates :
                         m.fuzzy_ukam_address_id # x.ukam_address_id } }
    IN  SetToBag(matched \cup unmatched)

\* fragment postcode_group_tries: one trie per postcode_group of the
\* restricted canonical rows, holding (ukam_address_id, address_tokens)
PostcodeGroupTries(restricted) ==
    { [postcode_group |-> g,
       trie |-> { [ukam_address_id |-> c.ukam_address_id,
                   address_tokens |-> c.address_tokens] :
                    c \in { x \in restricted : x.postcode_group = g } }] :
        g \in { r.postcode_group : r \in restricted } }

\* the join of the fuzzy rows with the trie of their postcode group: one
\* find_address call per joined row
RawTrieMatches(fuzzy, tries, find) ==
    { [fuzzy_ukam_address_id |-> f.ukam_address_id,
       canonical_ukam_address_id |-> find[f.ukam_address_id]] :
        f \in { x \in fuzzy :
                  \E t \in tries :
                      t.postcode_group = postcode_group(x.postcode) } }

\* --------------------------------- trie stage of exact_matching_model.py
\* fragment fuzzy_without_exact_matches: the rows the exact join left
fuzzy_without_exact_matches(input) ==
    { f \in input : f.resolved_canonical_id = NULL }

\* fragment canonical_ids_from_exact_matches
canonical_ids_from_exact_matches(input) ==
    { f.resolved_canonical_id : f \in input } \ {NULL}

\* fragment canonical_candidates_for_trie: canonical rows not used by an
\* exact match, of a postcode of the rows still unmatched
canonical_candidates_for_trie(input, canonical) ==
    { [ukam_address_id |-> c.ukam_address_id,
       canonical_unique_id |-> c.unique_id,
       address_tokens |-> c.address_tokens,
       postcode |-> c.postcode,
       postcode_group |-> postcode_group(c.postcode)] :
        c \in { x \in canonical :
                  /\ x.unique_id \notin canonical_ids_from_exact_matches(input)
                  /\ \E f \in fuzzy_without_exact_matches(input) :
                        f.postcode = x.postcode } }

\* fragments trie_match_candidates and fuzzy_with_resolved_matches: an exact
\* match wins over a trie match; find is over the rows without exact match
ResolveWithTrieModel(input, canonical, find) ==
    LET candidates == canonical_candidates_for_trie(input, canonical)
        m(f) == IF f \in fuzzy_without_exact_matches(input)
                   /\ find[f.ukam_address_id] # NULL
                THEN (CHOOSE c \in candidates :
                         c.ukam_address_id = find[f.ukam_address_id]
                     ).canonical_unique_id
                ELSE NULL
    IN  SetToBag({ [ukam_address_id |-> f.ukam_address_id,
                    address_tokens |-> f.address_tokens,
                    postcode |-> f.postcode,
                    resolved_canonical_id |->
                        IF f.resolved_canonical_id # NULL
                        THEN f.resolved_canonical_id ELSE m(f),
                    match_reason |->
                        IF f.resolved_canonical_id # NULL THEN EXACT
                        ELSE IF m(f) # NULL THEN TRIE
                        ELSE UNMATCHED] : f \in input })
\* ------------------------------------------------------ stage validation
available_deterministic_stages == { s \in StageName :
                                      \A i \in 1..Len(_ALWAYS_ON) : _ALWAYS_ON[i] # s }

NoError == [kind |-> "none", item |-> "", listed |-> {}, missing |-> {}]

\* the loop of _normalise_enabled_stages from item i on; the first offending
\* item raises.  listed: the stage names the error message enumerates
RECURSIVE NormaliseFrom(_, _, _, _)
NormaliseFrom(enabled, i, out, seen) ==
    IF i > Len(enabled)
    THEN [ok |-> TRUE, out |-> out, err |-> NoError]
    ELSE LET item == enabled[i]
         IN  IF item \notin StageName
             THEN [ok |-> FALSE, out |-> <<>>,
                   err |-> [kind |-> "unknown", item |-> item,
                            listed |-> available_deterministic_stages,
                            missing |-> {}]]
             ELSE IF \E k \in 1..Len(_ALWAYS_ON) : _ALWAYS_ON[k] = item
             THEN [ok |-> FALSE, out |-> <<>>,
                   err |-> [kind |-> "always_on", item |-> item, listed |-> {},
                            missing |-> {}]]
             ELSE IF item \in seen
             THEN [ok |-> FALSE, out |-> <<>>,
                   err |-> [kind |-> "duplicate", item |-> item, listed |-> {},
                            missing |-> {}]]
             ELSE NormaliseFrom(enabled, i + 1, Append(out, item),
                                seen \cup {item})

\* a normalisation that drops a repeated stage instead of raising
RECURSIVE DropDuplicatesFrom(_, _, _)
DropDuplicatesFrom(enabled, i, out) ==
    IF i > Len(enabled) THEN out
    ELSE DropDuplicatesFrom(enabled, i + 1,
            IF \E k \in 1..Len(out) : out[k] = enabled[i]
            THEN out ELSE Append(out, enabled[i]))

NormaliseDropDuplicates(enabled) ==
    NormaliseFrom(DropDuplicatesFrom(enabled, 1, <<>>), 1, <<>>, {})

_normalise_enabled_stages(enabled) == NormaliseFrom(enabled, 1, <<>>, {})

\* ordered = list(_ALWAYS_ON), then each normalised stage not yet in it
RECURSIVE AppendNew(_, _, _)
AppendNew(ord, extra, i) ==
    IF i > Len(extra) THEN ord
    ELSE AppendNew(IF \E k \in 1..Len(ord) : ord[k] = extra[i]
                   THEN ord ELSE Append(ord, extra[i]),
                   extra, i + 1)

\* the optional stages put before the always-on stage
OrderedStagesOptionalFirst(normalised) == AppendNew(normalised, _ALWAYS_ON, 1)

OrderedStages(normalised) == AppendNew(_ALWAYS_ON, normalised, 1)

\* --------------------------------------------------- orchestrator helpers
NoneRel == [is_none |-> TRUE, rel |-> EmptyBag]
SomeRel(B) == [is_none |-> FALSE, rel |-> B]

\* no filtering: every stage is handed the whole fuzzy input
GetUnmatchedAll(df, mu) == df

\* an anti-join against the ids of the resolved entries only
GetUnmatchedUnresolved(df, mu) ==
    IF mu.is_none
    THEN df
    ELSE { f \in df : \A m \in DOMAIN mu.rel :
                          (m.ukam_address_id = f.ukam_address_id)
                             => m.match_reason \notin {EXACT, TRIE} }

\* a semi-join where the anti-join belongs
GetUnmatchedSemi(df, mu) ==
    IF mu.is_none
    THEN df
    ELSE { f \in df : \E m \in DOMAIN mu.rel :
                          m.ukam_address_id = f.ukam_address_id }

\* anti-join of the fuzzy input against the ids of the accumulated matches
_get_unmatched_subset(df, mu) ==
    IF mu.is_none
    THEN df
    ELSE { f \in df : \A m \in DOMAIN mu.rel :
                          m.ukam_address_id # f.ukam_address_id }

\* an early-exit test that never fires
NothingLeftNever(unmatched) == FALSE

\* df_fuzzy_unmatched.count("*") == 0
NothingLeft(unmatched) == Cardinality(unmatched) = 0

\* the output rows of the stage's pipeline (pre-filter stage, then the
\* stage's own fragments) for the lookups find of the trie primitive
StageResult(stage_name, unmatched, canonical, find) ==
    IF stage_name = EXACT_MATCHES
    THEN AnnotateExactMatches(unmatched, canonical)
    ELSE ResolveWithTrie(unmatched, canonical, find)

StageLookups(stage_name, unmatched, canonical) ==
    IF stage_name = EXACT_MATCHES
    THEN { [i \in Ids(unmatched) |-> NULL] }
    ELSE TrieLookups(unmatched, canonical)

\* matches_union = stage_result if None else matches_union.union(stage_result)
Accumulate(mu, stage_result) ==
    IF mu.is_none THEN SomeRel(stage_result)
    ELSE SomeRel(mu.rel (+) stage_result)

OutRow(id, resolved, reason) ==
    [ukam_address_id |-> id, resolved_canonical_id |-> resolved,
     match_reason |-> reason]

\* fuzzy LEFT JOIN matched_records USING (ukam_address_id); the resolved id
\* and the reason of an output row are those of the matched record
_finalise_results(df, mu_rel) ==
    LET joined == BagRowsWithIds(mu_rel, Ids(df))
        hit == BagOfAll(LAMBDA m : OutRow(m.ukam_address_id,
                                          m.resolved_canonical_id,
                                          m.match_reason), joined)
        miss == { OutRow(f.ukam_address_id, NULL, NullReason) :
                    f \in { x \in df : \A m \in DOMAIN mu_rel :
                              m.ukam_address_id # x.ukam_address_id } }
    IN  hit (+) SetToBag(miss)

\* the relation returned when no stage ran: the fuzzy input itself
InputAsOutput(df) ==
    SetToBag({ OutRow(f.ukam_address_id, f.resolved_canonical_id,
                      f.match_reason) : f \in df })
\* ------------------------------------------------------- pipeline: text
\* names and aliases are character sequences; a query text is a sequence of
\* tokens: literal text, a {name} placeholder, or an alias written in
Lit(v) == [t |-> "lit", v |-> v]
Ph(name) == [t |-> "ph", v |-> name]
Ref(alias) == [t |-> "ref", v |-> alias]

InputName == <<"i", "n", "p", "u", "t">>

Lower(c) == IF c = "A" THEN "a" ELSE IF c = "F" THEN "f" ELSE c

SlugChars == {"a", "b", "f", "g", "z", "_", "0", "1", "2", "3", "4", "5",
              "6", "7", "8", "9"}

\* re.sub(r"[^a-z0-9_]+", "_", s.lower())
RECURSIVE SlugFrom(_, _, _)
SlugFrom(s, i, inRun) ==
    IF i > Len(s) THEN <<>>
    ELSE LET c == Lower(s[i])
         IN  IF c \in SlugChars
             THEN <<c>> \o SlugFrom(s, i + 1, FALSE)
             ELSE IF inRun THEN SlugFrom(s, i + 1, TRUE)
             ELSE <<"_">> \o SlugFrom(s, i + 1, TRUE)

_slug(s) == SlugFrom(s, 1, FALSE)

DigitChar(d) == <<"0", "1", "2", "3", "4", "5", "6", "7", "8", "9">>[d + 1]

RECURSIVE Decimal(_)
Decimal(n) == IF n < 10 THEN <<DigitChar(n)>>
              ELSE Decimal(n \div 10) \o <<DigitChar(n % 10)>>

\* the values _uid() can draw
Uids == { <<"u">>, <<"v">> }

SeedAlias(u) == <<"s", "e", "e", "d", "_">> \o u
SegName(u) == <<"_", "_", "s", "e", "g", "_">> \o u
SrcName == <<"s", "r", "c">>

\* f"s{step_idx}_{_slug(step.name)}__{_slug(frag.name)}"
FragAlias(step_idx, stage_name, frag_name) ==
    <<"s">> \o Decimal(step_idx) \o <<"_">> \o _slug(stage_name)
        \o <<"_", "_">> \o _slug(frag_name)

\* ----------------------------------------------------- pipeline: stages
CTEStep(name, sql) == [name |-> name, sql |-> sql]

Stage(name, steps, output, registers, checkpoint, preludes) ==
    [name |-> name, steps |-> steps, output |-> output,
     registers |-> registers, checkpoint |-> checkpoint,
     preludes |-> preludes]

\* output <<>> is None; registers is the sequence of names bound; preludes
\* the sequence of hook names
PipelineStages ==
    { Stage(<<"a">>, <<CTEStep(<<"f">>, <<Lit(<<"q">>), Ph(InputName)>>)>>,
            <<>>, <<>>, FALSE, <<>>),
      Stage(<<"A">>, <<CTEStep(<<"f">>, <<Ph(InputName), Ph(<<"g">>),
                                          Ph(<<"h">>)>>),
                       CTEStep(<<"g">>, <<Ph(<<"f">>), Ph(<<"g">>)>>)>>,
            <<>>, <<>>, FALSE, <<>>),
      Stage(<<"a">>, <<CTEStep(<<"f">>, <<Ph(InputName)>>),
                       CTEStep(<<"g">>, <<Ph(<<"f">>)>>)>>,
            <<"f">>, << <<"r">>, <<"s">> >>, FALSE,
            << <<"p">>, <<"q">> >>),
      Stage(<<"b">>, <<CTEStep(<<"f">>, <<Ph(InputName)>>)>>,
            <<>>, <<>>, TRUE, <<>>),
      Stage(<<"b">>, <<CTEStep(<<"f">>, <<Ph(InputName)>>)>>,
            <<"z">>, << <<"r">> >>, FALSE, << <<"p">> >>),
      Stage(<<"a", "-", "b">>, <<CTEStep(<<"f">>, <<Ph(InputName)>>),
                                 CTEStep(<<"F">>, <<Ph(<<"f">>)>>)>>,
            <<>>, <<>>, FALSE, <<>>),
      Stage(<<"b">>, <<>>, <<>>, << <<"r">> >>, FALSE, <<>>) }

\* --------------------------------------------------- pipeline: operators
QueueItem(sql, alias) == [sql |-> sql, alias |-> alias]

NoText == [ctes |-> <<>>, final |-> <<>>]

\* a composition whose final SELECT reads the first sub-query
ComposeReadingFirst(items) ==
    IF items = <<>>
    THEN [ok |-> FALSE, err |-> "ValueError: empty CTE list", text |-> NoText]
    ELSE [ok |-> TRUE, err |-> "",
          text |-> [ctes |-> items, final |-> items[1].alias]]

\* WITH a AS (...), b AS (...), ... SELECT * FROM <last_alias>
_compose_with_sql_from(items) ==
    IF items = <<>>
    THEN [ok |-> FALSE, err |-> "ValueError: empty CTE list", text |-> NoText]
    ELSE [ok |-> TRUE, err |-> "",
          text |-> [ctes |-> items, final |-> items[Len(items)].alias]]

\* the text generate_cte_pipeline_sql returns or the error it raises, for the
\* queue and spent flag it is called with
generate_cte_pipeline_sql(q, isSpent) ==
    IF q = <<>>
    THEN [ok |-> FALSE, err |-> "ValueError: Empty pipeline.", text |-> NoText]
    ELSE _compose_with_sql_from(q)

\* a compose that flips the flag instead of setting it
SpentAfterGenerateToggled(isSpent, mark_spent) ==
    IF mark_spent THEN ~ isSpent ELSE isSpent

\* the spent flag after generate_cte_pipeline_sql(mark_spent=...)
SpentAfterGenerate(isSpent, mark_spent) == IF mark_spent THEN TRUE ELSE isSpent

\* a substitution that knows {input} only
SubstituteInputOnly(tok, prev_alias, frag_aliases) ==
    IF tok.t # "ph" THEN tok
    ELSE IF tok.v = InputName THEN Ref(prev_alias)
    ELSE tok

\* one template token after the placeholder substitutions of a fragment
Substitute(tok, prev_alias, frag_aliases) ==
    IF tok.t # "ph" THEN tok
    ELSE IF tok.v = InputName THEN Ref(prev_alias)
    ELSE IF tok.v \in DOMAIN frag_aliases THEN Ref(frag_aliases[tok.v])
    ELSE tok

RECURSIVE RenderFrom(_, _, _, _, _, _)
RenderFrom(step, step_idx, prev_alias, i, ctes, frag_aliases) ==
    IF i > Len(step.steps)
    THEN [ctes |-> ctes, frag_aliases |-> frag_aliases]
    ELSE LET frag == step.steps[i]
             alias == FragAlias(step_idx, step.name, frag.name)
             sql == [k \in 1..Len(frag.sql) |->
                        Substitute(frag.sql[k], prev_alias, frag_aliases)]
         IN  RenderFrom(step, step_idx, prev_alias, i + 1,
                        Append(ctes, QueueItem(sql, alias)),
                        [n \in DOMAIN frag_aliases \cup {frag.name} |->
                            IF n = frag.name THEN alias ELSE frag_aliases[n]])

render_step_to_ctes(step, step_idx, prev_alias) ==
    LET r == RenderFrom(step, step_idx, prev_alias, 1, <<>>, <<>>)
        key == IF step.output # <<>> THEN step.output
               ELSE IF step.steps # <<>>
               THEN step.steps[Len(step.steps)].name
               ELSE <<>>
    IN  IF step.output = <<>> /\ step.steps = <<>>
        THEN [ok |-> FALSE, err |-> "IndexError", ctes |-> <<>>,
              out_alias |-> <<>>]
        ELSE IF key \notin DOMAIN r.frag_aliases
        THEN [ok |-> FALSE, err |-> "KeyError", ctes |-> <<>>,
              out_alias |-> <<>>]
        ELSE [ok |-> TRUE, err |-> "", ctes |-> r.ctes,
              out_alias |-> r.frag_aliases[key]]

\* one entry of the call log: the method, its argument, and the value it
\* returned or the error it raised
Ret(op, arg, ok, err, text) ==
    [op |-> op, arg |-> arg, ok |-> ok, err |-> err, text |-> text]

NoArg == <<>>

SpentError == "ValueError: This pipeline has already been used (spent=True)."

EngineError == "EngineExecutionError"

\* ------------------------------------------- run_deterministic_match_pass
Pending == [kind |-> "pending", rel |-> EmptyBag]

\* ------------------------------------------------------ schema validation
RequiredColumns == {"unique_id", "original_address_concat", "postcode",
                    "ukam_address_id"}

\* the column sets a caller's relation may declare
DeclaredColumns == { RequiredColumns,
                     RequiredColumns \ {"postcode", "ukam_address_id"} }

ColumnRef(relation, column) == <<relation, column>>

MissingColumns(cols) ==
    { ColumnRef("fuzzy_addresses", c) : c \in RequiredColumns \ cols.fuzzy }
    \cup
    { ColumnRef("canonical_addresses", c) :
          c \in RequiredColumns \ cols.canonical }

\* validate_tables: every missing column of both relations in one error
validate_tables(cols) ==
    IF MissingColumns(cols) = {}
    THEN [ok |-> TRUE, err |-> NoError]
    ELSE [ok |-> FALSE,
          err |-> [kind |-> "schema", item |-> "",
                   listed |-> {}, missing |-> MissingColumns(cols)]]

\* pipeline.run(options, explain): the engine runs the stage unless explain
PipelineRunExecutes(is_explain) == ~ is_explain

\* the exception of a failed engine call, as it leaves _run_stage
EngineFailure(stage) ==
    [kind |-> "engine", item |-> stage, listed |-> {}, missing |-> {}]

\* a failed stage is not caught: the pass ends with its exception
PcAfterStageSwallowed(failed) == "loop"

PcAfterStage(failed) == IF failed THEN "error" ELSE "loop"

\* the tail of the loop body without its explain branch
AfterStageAccumulating(is_explain, mu, stage_result) ==
    Accumulate(mu, stage_result)

\* the tail of the loop body: explain skips the accumulation
AfterStage(is_explain, mu, stage_result) ==
    IF is_explain THEN mu ELSE Accumulate(mu, stage_result)

InitMatch ==
    /\ \E cf \in DeclaredColumns : \E cc \in DeclaredColumns :
          columns = [fuzzy |-> cf, canonical |-> cc]
    /\ executed = <<>>
    /\ \E n \in 0..MaxFuzzy : \E s \in [1..n -> ContentCodes] :
          /\ IsSortedCodes(s)
          /\ df_addresses_to_match = { FuzzyRow(i, s[i]) : i \in 1..n }
    /\ \E n \in 0..MaxCanon : \E s \in [1..n -> ContentCodes] :
          /\ IsSortedCodes(s)
          /\ df_addresses_to_search_within = { CanonRow(i, s[i]) : i \in 1..n }
    /\ \E n \in 0..MaxEnabled : \E e \in [1..n -> StageInput] :
          enabled_stage_names = e
    /\ explain \in BOOLEAN
    /\ pc = "start"
    /\ ordered = <<>>
    /\ stage_idx = 1
    /\ matches_union = NoneRel
    /\ df_fuzzy_unmatched = {}
    /\ stages_run = <<>>
    /\ result = Pending
    /\ error = NoError

\* the head of the pass without the validation of the relations
EntryErrorUnvalidated(v, n) == IF ~ n.ok THEN n.err ELSE NoError

\* the head of the pass: the relations are validated, then the stage list
\* is normalised; the first of the two that fails raises
EntryError(v, n) ==
    IF ~ v.ok THEN v.err ELSE IF ~ n.ok THEN n.err ELSE NoError

\* both relations are validated, then the ordered stage list is built or
\* the stage list is rejected
BuildOrdered ==
    /\ pc = "start"
    /\ LET v == validate_tables(columns)
           n == _normalise_enabled_stages(enabled_stage_names)
           e == EntryError(v, n)
       IN  IF e.kind = "none"
           THEN /\ ordered' = OrderedStages(n.out)
                /\ matches_union' = NoneRel
                /\ stage_idx' = 1
                /\ pc' = "loop"
                /\ error' = error
           ELSE /\ error' = e
                /\ pc' = "error"
                /\ UNCHANGED <<ordered, matches_union, stage_idx>>
    /\ UNCHANGED <<df_addresses_to_match, df_addresses_to_search_within,
                   enabled_stage_names, explain, df_fuzzy_unmatched,
                   stages_run, result, columns, executed>>

\* top of the loop: the next stage's unmatched subset, or the loop is over
NextStage ==
    /\ pc = "loop"
    /\ IF stage_idx <= Len(ordered)
       THEN /\ df_fuzzy_unmatched' =
                   _get_unmatched_subset(df_addresses_to_match, matches_union)
            /\ pc' = "check"
       ELSE /\ pc' = "finalise"
            /\ df_fuzzy_unmatched' = df_fuzzy_unmatched
    /\ UNCHANGED <<df_addresses_to_match, df_addresses_to_search_within,
                   enabled_stage_names, explain, ordered, stage_idx,
                   matches_union, stages_run, result, error, columns,
                   executed>>

\* early exit: nothing left to match
EarlyExit ==
    /\ pc = "check"
    /\ NothingLeft(df_fuzzy_unmatched)
    /\ pc' = "finalise"
    /\ UNCHANGED <<df_addresses_to_match, df_addresses_to_search_within,
                   enabled_stage_names, explain, ordered, stage_idx,
                   matches_union, df_fuzzy_unmatched, stages_run, result,
                   error, columns, executed>>

\* _run_stage for the current stage, then the accumulation of its result
RunStage ==
    /\ pc = "check"
    /\ ~ NothingLeft(df_fuzzy_unmatched)
    /\ \E engine_ok \in BOOLEAN :
       \E find \in StageLookups(ordered[stage_idx], df_fuzzy_unmatched,
                                df_addresses_to_search_within) :
          LET executes == PipelineRunExecutes(explain)
              failed == executes /\ ~ engine_ok
          IN  /\ matches_union' =
                    IF failed
                    THEN matches_union
                    ELSE AfterStage(explain, matches_union,
                                    StageResult(ordered[stage_idx],
                                                df_fuzzy_unmatched,
                                                df_addresses_to_search_within,
                                                find))
              /\ executed' = IF executes
                             THEN Append(executed, ordered[stage_idx])
                             ELSE executed
              /\ error' = IF failed
                          THEN EngineFailure(ordered[stage_idx])
                          ELSE error
              /\ stage_idx' = IF failed THEN stage_idx ELSE stage_idx + 1
              /\ pc' = PcAfterStage(failed)
    /\ stages_run' = Append(stages_run, ordered[stage_idx])
    /\ UNCHANGED <<df_addresses_to_match, df_addresses_to_search_within,
                   enabled_stage_names, explain, ordered,
                   df_fuzzy_unmatched, result, columns>>

\* after the loop: None, the input itself, or the finalised join
Finalise ==
    /\ pc = "finalise"
    /\ result' =
          IF explain
          THEN [kind |-> "none", rel |-> EmptyBag]
          ELSE IF matches_union.is_none
          THEN [kind |-> "relation",
                rel |-> InputAsOutput(df_addresses_to_match)]
          ELSE [kind |-> "relation",
                rel |-> _finalise_results(df_addresses_to_match,
                                          matches_union.rel)]
    /\ pc' = "done"
    /\ UNCHANGED <<df_addresses_to_match, df_addresses_to_search_within,
                   enabled_stage_names, explain, ordered, stage_idx,
                   matches_union, df_fuzzy_unmatched, stages_run, error,
                   columns, executed>>

\* ----------------------------------------------------- pipeline actions
SelectFrom(name) == <<Lit(<<"S", "E", "L">>), Ref(name)>>

\* the state DuckDBPipeline.__init__ leaves on a connection that holds no
\* table named like the input: the input registered, one seed.  The field
\* catalog of con tells which relation each name of the connection denotes.
InitPipeline ==
    /\ \E u \in Uids :
          /\ queue = <<QueueItem(SelectFrom(SrcName), SeedAlias(u))>>
          /\ _current_output_alias = SeedAlias(u)
    /\ spent = FALSE
    /\ _materialised_sql_blocks = <<>>
    /\ _step_counter = 0
    /\ con = [registered |-> {SrcName}, temp |-> {}, preludes |-> <<>>,
            setup |-> <<>>,
            catalog |-> {[name |-> SrcName, rel |-> "input_rel"]}]
    /\ calls = <<>>

\* no pipeline exists
NoPipeline ==
    /\ queue = <<>>
    /\ _current_output_alias = <<>>
    /\ spent = FALSE
    /\ _materialised_sql_blocks = <<>>
    /\ _step_counter = 0
    /\ con = [registered |-> {}, temp |-> {}, preludes |-> <<>>,
            setup |-> <<>>, catalog |-> {}]
    /\ calls = <<>>

\* no match pass is running
NoMatchPass ==
    /\ df_addresses_to_match = {}
    /\ df_addresses_to_search_within = {}
    /\ enabled_stage_names = <<>>
    /\ explain = FALSE
    /\ pc = "idle"
    /\ ordered = <<>>
    /\ stage_idx = 1
    /\ matches_union = NoneRel
    /\ df_fuzzy_unmatched = {}
    /\ stages_run = <<>>
    /\ result = Pending
    /\ error = NoError
    /\ columns = [fuzzy |-> RequiredColumns, canonical |-> RequiredColumns]
    /\ executed = <<>>

\* enqueue_sql without its guard
EnqueueSqlUnguarded(item) ==
    /\ Len(calls) < MaxCalls
    /\ calls' = Append(calls, Ret("enqueue_sql", item, TRUE, "", NoText))
    /\ queue' = Append(queue, item)
    /\ UNCHANGED <<spent, _materialised_sql_blocks, _current_output_alias,
                   _step_counter, con>>
    /\ UNCHANGED <<matchVars, stageVars, trieVars>>

\* enqueue_sql called by the user
EnqueueSql(item) ==
    /\ Len(calls) < MaxCalls
    /\ IF spent
       THEN /\ calls' = Append(calls, Ret("enqueue_sql", item, FALSE,
                                          SpentError, NoText))
            /\ queue' = queue
       ELSE /\ calls' = Append(calls, Ret("enqueue_sql", item, TRUE, "",
                                          NoText))
            /\ queue' = Append(queue, item)
    /\ UNCHANGED <<spent, _materialised_sql_blocks, _current_output_alias,
                   _step_counter, con>>
    /\ UNCHANGED <<matchVars, stageVars, trieVars>>

\* generate_cte_pipeline_sql(mark_spent=True) called by the user
GenerateCtePipelineSql ==
    /\ Len(calls) < MaxCalls
    /\ LET r == generate_cte_pipeline_sql(queue, spent)
       IN  calls' = Append(calls, Ret("generate_cte_pipeline_sql", NoArg,
                                      r.ok, r.err, r.text))
    /\ spent' = SpentAfterGenerate(spent, TRUE)
    /\ UNCHANGED <<queue, _materialised_sql_blocks, _current_output_alias,
                   _step_counter, con>>
    /\ UNCHANGED <<matchVars, stageVars, trieVars>>

\* the engine calls of the set-up of a step: one con.register per relation
\* binding, one call per prelude
Registrations(step) ==
    [i \in 1..Len(step.registers) |->
        [op |-> "register", name |-> step.registers[i]]]

PreludeCalls(step) ==
    [i \in 1..Len(step.preludes) |->
        [op |-> "prelude", name |-> step.preludes[i]]]

\* the set-up with the preludes called ahead of the bindings
ConAfterSetupPreludesFirst(c, step) ==
    [c EXCEPT !.registered = @ \cup { step.registers[i] :
                                        i \in 1..Len(step.registers) },
              !.preludes = @ \o step.preludes,
              !.setup = @ \o PreludeCalls(step) \o Registrations(step)]

\* the connection after the registers and preludes of a step
ConAfterSetup(c, step) ==
    [c EXCEPT !.registered = @ \cup { step.registers[i] :
                                        i \in 1..Len(step.registers) },
              !.preludes = @ \o step.preludes,
              !.setup = @ \o Registrations(step) \o PreludeCalls(step)]

\* the property output_table_name: the alias of the last queue entry
output_table_name(q) == q[Len(q)].alias

\* the queue _materialise_checkpoint leaves: cleared, then one fresh seed
\* reading the materialised relation
ReseededQueueCleared(tmp, seed) == <<>>

ReseededQueue(tmp, seed) == <<QueueItem(SelectFrom(tmp), seed)>>

\* add_step, with _materialise_checkpoint when the step asks for it
AddStep(step) ==
    /\ Len(calls) < MaxCalls
    /\ LET con1 == ConAfterSetup(con, step)
           prev_alias == output_table_name(queue)
           r == render_step_to_ctes(step, _step_counter, prev_alias)
           queue1 == queue \o r.ctes
       IN  IF queue = <<>>
           THEN /\ calls' = Append(calls, Ret("add_step", step, FALSE,
                                   "ValueError: Empty pipeline.", NoText))
                /\ con' = con1
                /\ UNCHANGED <<queue, _materialised_sql_blocks,
                               _current_output_alias, _step_counter>>
           ELSE IF ~ r.ok
           THEN /\ calls' = Append(calls, Ret("add_step", step, FALSE, r.err,
                                              NoText))
                /\ con' = con1
                /\ UNCHANGED <<queue, _materialised_sql_blocks,
                               _current_output_alias, _step_counter>>
           ELSE IF spent
           THEN /\ calls' = Append(calls, Ret("add_step", step, FALSE,
                                              SpentError, NoText))
                /\ con' = con1
                /\ UNCHANGED <<queue, _materialised_sql_blocks,
                               _current_output_alias, _step_counter>>
           ELSE IF ~ step.checkpoint
           THEN /\ calls' = Append(calls, Ret("add_step", step, TRUE, "",
                                              NoText))
                /\ con' = con1
                /\ queue' = queue1
                /\ _current_output_alias' = r.out_alias
                /\ _step_counter' = _step_counter + 1
                /\ UNCHANGED _materialised_sql_blocks
           ELSE \E u1 \in Uids, u2 \in Uids, engine_ok \in BOOLEAN :
                LET sql == generate_cte_pipeline_sql(queue1, spent).text
                    tmp == SegName(u1)
                IN  /\ _materialised_sql_blocks' =
                          Append(_materialised_sql_blocks,
                                 [sql |-> sql, name |-> tmp])
                    /\ _step_counter' = _step_counter + 1
                    /\ IF engine_ok
                       THEN /\ calls' = Append(calls, Ret("add_step", step,
                                                          TRUE, "", NoText))
                            /\ con' = [con1 EXCEPT !.temp = @ \cup {tmp}]
                            /\ queue' = ReseededQueue(tmp, SeedAlias(u2))
                            /\ _current_output_alias' = SeedAlias(u2)
                       ELSE /\ calls' = Append(calls, Ret("add_step", step,
                                                FALSE, EngineError, NoText))
                            /\ con' = con1
                            /\ queue' = queue1
                            /\ _current_output_alias' = r.out_alias
    /\ spent' = IF queue # <<>> /\ ~ spent /\ step.checkpoint
                   /\ render_step_to_ctes(step, _step_counter,
                                          output_table_name(queue)).ok
                THEN SpentAfterGenerate(spent, FALSE)
                ELSE spent
    /\ UNCHANGED <<matchVars, stageVars, trieVars>>

\* RunOptions: the fields that select a path of run_with_options.
\* pretty_print_sql only prints the segments; it is drawn on the plain path
RunOptions ==
    { o \in [pretty_print_sql : BOOLEAN, debug_mode : BOOLEAN,
             debug_incremental : BOOLEAN] :
        o.pretty_print_sql => (~ o.debug_mode /\ ~ o.debug_incremental) }

\* the relations a statement can read by name in the connection
Tables(c) == c.registered \cup c.temp

\* the relation con.table(alias) returns
TableRel(alias) == [ctes |-> <<>>, final |-> alias]

\* a preview that composed through generate_cte_pipeline_sql
SpentAfterPreviewComposing(isSpent) == TRUE

\* the spent flag after debug(materialise=False): each cumulative query is
\* composed with _compose_with_sql_from, which does not touch the flag
SpentAfterPreview(isSpent) == isSpent

\* the user's debug calls; debug(materialise=True, return_last=True) is the
\* incremental path of run_with_options
DebugArgs == { a \in [materialise : BOOLEAN, return_last : BOOLEAN] :
                 ~ a.return_last }

\* debug called by the user.  The preview (materialise=False) sends one
\* cumulative query per queue entry to the engine and shows it; the
\* materialising mode creates one temp table per queue entry, of which the
\* engine completes the first `done`
Debug(args) ==
    /\ Len(calls) < MaxCalls
    /\ IF queue = <<>>
       THEN /\ con' = con
            /\ spent' = spent
            /\ calls' = Append(calls, Ret("debug", args, TRUE, "", NoText))
       ELSE IF ~ args.materialise
       THEN /\ con' = con
            /\ spent' = SpentAfterPreview(spent)
            /\ \E preview_ok \in BOOLEAN :
                  calls' = Append(calls,
                      IF preview_ok
                      THEN Ret("debug", args, TRUE, "", NoText)
                      ELSE Ret("debug", args, FALSE, EngineError, NoText))
       ELSE IF Len(queue) = 1
       THEN /\ con' = con
            /\ spent' = spent
            /\ calls' = Append(calls,
                  IF ~ args.return_last
                  THEN Ret("debug", args, TRUE, "", NoText)
                  ELSE IF queue[1].alias \in Tables(con)
                  THEN Ret("debug", args, TRUE, "", TableRel(queue[1].alias))
                  ELSE Ret("debug", args, FALSE, EngineError, NoText))
       ELSE \E done \in 0..Len(queue) :
            /\ con' = [con EXCEPT !.temp =
                          @ \cup { queue[i].alias : i \in 1..done }]
            /\ spent' = spent
            /\ calls' = Append(calls,
                  IF done < Len(queue)
                  THEN Ret("debug", args, FALSE, EngineError, NoText)
                  ELSE IF args.return_last
                  THEN Ret("debug", args, TRUE, "",
                           TableRel(output_table_name(queue)))
                  ELSE Ret("debug", args, TRUE, "", NoText))
    /\ UNCHANGED <<queue, _materialised_sql_blocks, _current_output_alias,
                   _step_counter>>
    /\ UNCHANGED <<matchVars, stageVars, trieVars>>

\* run / run_with_options.  The incremental path is
\* debug(materialise=True, return_last=True): one CREATE OR REPLACE TEMP
\* TABLE per queue entry, of which the engine completes the first `done`.
\* The other paths preview the queue when debug_mode is set, compose with
\* mark_spent=True and hand the text to the engine
RunWithOptions(options) ==
    /\ Len(calls) < MaxCalls
    /\ IF options.debug_incremental
       THEN /\ spent' = spent
            /\ IF queue = <<>>
               THEN /\ con' = con
                    /\ calls' = Append(calls, Ret("run", options, TRUE, "",
                                                  NoText))
               ELSE IF Len(queue) = 1
               THEN /\ con' = con
                    /\ calls' = Append(calls,
                          IF queue[1].alias \in Tables(con)
                          THEN Ret("run", options, TRUE, "",
                                   TableRel(queue[1].alias))
                          ELSE Ret("run", options, FALSE, EngineError, NoText))
               ELSE \E done \in 0..Len(queue) :
                    /\ con' = [con EXCEPT !.temp =
                                  @ \cup { queue[i].alias : i \in 1..done }]
                    /\ calls' = Append(calls,
                          IF done = Len(queue)
                          THEN Ret("run", options, TRUE, "",
                                   TableRel(output_table_name(queue)))
                          ELSE Ret("run", options, FALSE, EngineError, NoText))
       ELSE /\ con' = con
            /\ \E preview_ok \in BOOLEAN, engine_ok \in BOOLEAN :
                  IF options.debug_mode /\ queue # <<>> /\ ~ preview_ok
                  THEN /\ spent' = SpentAfterPreview(spent)
                       /\ calls' = Append(calls, Ret("run", options, FALSE,
                                                     EngineError, NoText))
                  ELSE LET r == generate_cte_pipeline_sql(queue, spent)
                       IN  /\ spent' = SpentAfterGenerate(
                                           IF options.debug_mode
                                           THEN SpentAfterPreview(spent)
                                           ELSE spent, TRUE)
                           /\ calls' = Append(calls,
                                 IF ~ r.ok
                                 THEN Ret("run", options, FALSE, r.err, NoText)
                                 ELSE IF engine_ok
                                 THEN Ret("run", options, TRUE, "", r.text)
                                 ELSE Ret("run", options, FALSE, EngineError,
                                          NoText))
    /\ UNCHANGED <<queue, _materialised_sql_blocks, _current_output_alias,
                   _step_counter>>
    /\ UNCHANGED <<matchVars, stageVars, trieVars>>

UserItems == { QueueItem(<<Lit(<<"q">>)>>, <<"x">>),
               QueueItem(<<Lit(<<"q">>)>>, <<"y">>) }

\* ---------------------------------------------------- stage construction
\* what the decorated function returns: a list of (name, sql) fragments, by
\* their names
FragSpecs == { <<>>, << <<"f">> >>, << <<"f">>, <<"g">> >>,
               << <<"f">>, <<"f">> >> }

\* the arguments of the decorator call
DecoTags == <<"t">>
DecoDependsOn == <<"d">>
DecoRegisters == <<"r">>
DecoPreludes == <<"p">>

\* heap indices of the argument objects: tags, depends_on, stage_registers,
\* preludes as the caller passed them, then tags_list and deps_list of
\* steps.pipeline_stage's deco
TagsArg == 1
DependsOnArg == 2
RegistersArg == 3
PreludesArg == 4
tags_list == 5
deps_list == 6

STEPS == "sql_pipeline.steps.pipeline_stage"
CORE == "core.sql_pipeline.pipeline_stage"
DIRECT == "Stage(...)"

EmptyStepsError == "ValueError: Stage returned an empty iterable of steps"
DuplicateNamesError == "ValueError: Duplicate CTE names"

HasDuplicateNames(spec) ==
    \E i \in 1..Len(spec) : \E j \in 1..Len(spec) : i # j /\ spec[i] = spec[j]

\* _normalise_sql_step: the error it raises, "" when it returns the steps
_normalise_sql_step(spec) ==
    IF spec = <<>> THEN EmptyStepsError
    ELSE IF HasDuplicateNames(spec) THEN DuplicateNamesError
    ELSE ""

\* CTEStep.from_return_value: the error it raises, "" when it returns
from_return_value(spec) ==
    IF spec = <<>> THEN EmptyStepsError ELSE ""

StageObj(steps, steps_is_list, tags, depends_on, registers, preludes) ==
    [steps |-> steps, steps_is_list |-> steps_is_list, tags |-> tags,
     depends_on |-> depends_on, registers |-> registers,
     preludes |-> preludes]

NoStage == StageObj(0, FALSE, 0, 0, 0, 0)

Built(way, spec, err, stage) ==
    [way |-> way, spec |-> spec, ok |-> err = "", err |-> err,
     stage |-> stage]

\* the state after the decorators have run: their argument objects, and the
\* lists deco made of tags and depends_on
InitStages ==
    /\ heap = <<DecoTags, DecoDependsOn, DecoRegisters, DecoPreludes,
                DecoTags, DecoDependsOn>>
    /\ built = <<>>

NoStages ==
    /\ heap = <<>>
    /\ built = <<>>

\* factory(*args) of sql_pipeline.steps.pipeline_stage: a new list of steps,
\* StageMeta over tags_list and deps_list, copies of the registers and of
\* the preludes
StepsFactory(spec) ==
    /\ Len(built) < MaxBuilt
    /\ LET err == _normalise_sql_step(spec)
           n == Len(heap)
       IN  IF err # ""
           THEN /\ built' = Append(built, Built(STEPS, spec, err, NoStage))
                /\ heap' = heap
           ELSE /\ heap' = heap \o <<spec, heap[RegistersArg],
                                     heap[PreludesArg]>>
                /\ built' = Append(built,
                      Built(STEPS, spec, "",
                            StageObj(n + 1, TRUE, tags_list, deps_list,
                                     n + 2, n + 3)))
    /\ UNCHANGED <<matchVars, pipeVars, trieVars>>

\* stage_factory(*args) of core.sql_pipeline.pipeline_stage: a tuple of
\* steps, and the decorator's own depends_on, stage_registers and preludes
CoreFactory(spec) ==
    /\ Len(built) < MaxBuilt
    /\ LET err == from_return_value(spec)
           n == Len(heap)
       IN  IF err # ""
           THEN /\ built' = Append(built, Built(CORE, spec, err, NoStage))
                /\ heap' = heap
           ELSE /\ heap' = Append(heap, spec)
                /\ built' = Append(built,
                      Built(CORE, spec, "",
                            StageObj(n + 1, FALSE, 0, DependsOnArg,
                                     RegistersArg, PreludesArg)))
    /\ UNCHANGED <<matchVars, pipeVars, trieVars>>

\* Stage(name=..., steps=(...)) written out by the caller: the dataclass
\* stores what it is given
DirectStage(spec) ==
    /\ Len(built) < MaxBuilt
    /\ heap' = Append(heap, spec)
    /\ built' = Append(built,
          Built(DIRECT, spec, "",
                StageObj(Len(heap) + 1, FALSE, 0, 0, 0, 0)))
    /\ UNCHANGED <<matchVars, pipeVars, trieVars>>

StageFields == {"steps", "tags", "depends_on", "registers", "preludes"}

\* the caller changes, in place, one mutable part of a Stage it holds
Mutate(k, field) ==
    /\ k \in 1..Len(built)
    /\ built[k].ok
    /\ LET id == built[k].stage[field]
       IN  /\ id # 0
           /\ field = "steps" => built[k].stage.steps_is_list
           /\ \A i \in 1..Len(heap[id]) : heap[id][i] # "m"
           /\ heap' = [heap EXCEPT ![id] = Append(@, "m")]
    /\ built' = built
    /\ UNCHANGED <<matchVars, pipeVars, trieVars>>

\* ------------------------------------------------- the trie stage alone
\* a fuzzy row as an earlier exact stage leaves it: unresolved, or resolved
\* to the canonical id r
FuzzyRowResolvedTo(i, k, r) ==
    [FuzzyRow(i, k) EXCEPT !.resolved_canonical_id = r,
                           !.match_reason = IF r = NULL THEN UNMATCHED
                                            ELSE EXACT]

TrieImplementations == {"resolve_with_trie", "exact_matching_model"}

InitTrie ==
    /\ implementation \in TrieImplementations
    /\ \E n \in 0..MaxCanon : \E s \in [1..n -> ContentCodes] :
          /\ IsSortedCodes(s)
          /\ canonical_addresses = { CanonRow(i, s[i]) : i \in 1..n }
    /\ \E n \in 0..MaxFuzzy : \E s \in [1..n -> ContentCodes] :
          /\ IsSortedCodes(s)
          /\ \E r \in [1..n -> {NULL} \cup { c.unique_id :
                                                c \in canonical_addresses }] :
                fuzzy_addresses =
                    { FuzzyRowResolvedTo(i, s[i], r[i]) : i \in 1..n }
    /\ canonical_addresses_restricted = {}
    /\ postcode_group_tries = {}
    /\ raw_trie_matches = {}
    /\ fuzzy_with_resolved_matches = EmptyBag
    /\ trie_pc = "input"

\* no trie stage is applied on its own
NoTrieStage ==
    /\ implementation = "none"
    /\ fuzzy_addresses = {}
    /\ canonical_addresses = {}
    /\ canonical_addresses_restricted = {}
    /\ postcode_group_tries = {}
    /\ raw_trie_matches = {}
    /\ fuzzy_with_resolved_matches = EmptyBag
    /\ trie_pc = "idle"

\* the staged trie stage: the drop_last_char pre-filter stage, then the
\* fragments of resolve_with_trie.py
ResolveWithTrieStaged ==
    /\ trie_pc = "input"
    /\ implementation = "resolve_with_trie"
    /\ canonical_addresses_restricted' =
          RestrictCanonicalDropLastChar(fuzzy_addresses, canonical_addresses)
    /\ postcode_group_tries' =
          PostcodeGroupTries(canonical_addresses_restricted')
    /\ \E find \in TrieLookups(fuzzy_addresses, canonical_addresses) :
          /\ raw_trie_matches' = RawTrieMatches(fuzzy_addresses,
                                                postcode_group_tries', find)
          /\ fuzzy_with_resolved_matches' =
                ResolveWithTrie(fuzzy_addresses, canonical_addresses, find)
    /\ trie_pc' = "done"
    /\ UNCHANGED <<implementation, fuzzy_addresses, canonical_addresses>>
    /\ UNCHANGED <<matchVars, pipeVars, stageVars>>

\* the trie stage of exact_matching_model.py
ResolveWithTrieOfModel ==
    /\ trie_pc = "input"
    /\ implementation = "exact_matching_model"
    /\ canonical_addresses_restricted' =
          canonical_candidates_for_trie(fuzzy_addresses, canonical_addresses)
    /\ postcode_group_tries' =
          PostcodeGroupTries(canonical_addresses_restricted')
    /\ \E find \in TrieLookupsOver(
                       fuzzy_without_exact_matches(fuzzy_addresses),
                       canonical_addresses_restricted') :
          /\ raw_trie_matches' =
                RawTrieMatches(fuzzy_without_exact_matches(fuzzy_addresses),
                               postcode_group_tries', find)
          /\ fuzzy_with_resolved_matches' =
                ResolveWithTrieModel(fuzzy_addresses, canonical_addresses,
                                     find)
    /\ trie_pc' = "done"
    /\ UNCHANGED <<implementation, fuzzy_addresses, canonical_addresses>>
    /\ UNCHANGED <<matchVars, pipeVars, stageVars>>

Init == InitMatch /\ NoPipeline /\ NoStages /\ NoTrieStage

Next ==
    \/ /\ \/ BuildOrdered
          \/ NextStage
          \/ EarlyExit
          \/ RunStage
          \/ Finalise
       /\ UNCHANGED <<pipeVars, stageVars, trieVars>>

Spec == Init /\ [][Next]_vars

InitP == InitPipeline /\ NoMatchPass /\ NoStages /\ NoTrieStage

NextP ==
    \/ \E item \in UserItems : EnqueueSql(item)
    \/ GenerateCtePipelineSql
    \/ \E step \in PipelineStages : AddStep(step)
    \/ \E options \in RunOptions : RunWithOptions(options)
    \/ \E args \in DebugArgs : Debug(args)

SpecPipeline == InitP /\ [][NextP]_vars

\* --------------------------------- specification of the constructor
\* DuckDBPipeline(con, input_rel) on a connection that may already hold a
\* table: catalog holds one entry per name the connection knows, with the
\* relation the name denotes.
TableName == <<"t">>

\* the connections a pipeline is constructed on: no table, a table t that is
\* another relation, a table t that is the very relation passed as input
Catalogs == { {},
              {[name |-> TableName, rel |-> "other_rel"]},
              {[name |-> TableName, rel |-> "input_rel"]} }

\* the relations passed as input: one with the alias t, one without alias
InputRels == { [alias |-> TableName, rel |-> "input_rel"],
               [alias |-> <<>>, rel |-> "input_rel"] }

\* SELECT COUNT(*) FROM information_schema.tables WHERE table_name = name
_duckdb_table_exists(c, table_name) ==
    \E e \in c.catalog : e.name = table_name

\* input_rel.alias or f"src_{_uid()}"
SrcNameOf(input_rel, u) ==
    IF input_rel.alias # <<>> THEN input_rel.alias
    ELSE SrcName \o <<"_">> \o u

\* con.register(name, rel)
Register(c, name, rel) ==
    [c EXCEPT !.registered = @ \cup {name},
              !.catalog = @ \cup {[name |-> name, rel |-> rel]}]

\* the relations a name of the connection denotes
Reads(c, name) == { e.rel : e \in { x \in c.catalog : x.name = name } }

\* DuckDBPipeline.__init__
DuckDBPipelineInit(input_rel) ==
    /\ calls = <<>>
    /\ \E u1 \in Uids, u2 \in Uids :
          LET _src_name == SrcNameOf(input_rel, u1)
              seed == SeedAlias(u2)
          IN  /\ con' = IF ~ _duckdb_table_exists(con, _src_name)
                        THEN Register(con, _src_name, input_rel.rel)
                        ELSE con
              /\ queue' = Append(queue, QueueItem(SelectFrom(_src_name),
                                                  seed))
              /\ _current_output_alias' = seed
              /\ _step_counter' = 0
    /\ calls' = Append(calls, Ret("DuckDBPipeline", input_rel, TRUE, "",
                                  NoText))
    /\ UNCHANGED <<spent, _materialised_sql_blocks>>
    /\ UNCHANGED <<matchVars, stageVars, trieVars>>

InitD ==
    /\ queue = <<>>
    /\ _current_output_alias = <<>>
    /\ spent = FALSE
    /\ _materialised_sql_blocks = <<>>
    /\ _step_counter = 0
    /\ \E cat \in Catalogs :
          con = [registered |-> {}, temp |-> {}, preludes |-> <<>>,
                 setup |-> <<>>, catalog |-> cat]
    /\ calls = <<>>
    /\ NoMatchPass /\ NoStages /\ NoTrieStage

NextD ==
    \/ \E input_rel \in InputRels : DuckDBPipelineInit(input_rel)
    \/ calls # <<>> /\ \E item \in UserItems : EnqueueSql(item)
    \/ calls # <<>> /\ GenerateCtePipelineSql

SpecConstruct == InitD /\ [][NextD]_vars

\* ------------------------------------------- specification of CTEPipeline
\* The base class used alone: CTEPipeline() starts with an empty queue and
\* has only enqueue_sql and generate_cte_pipeline_sql.
CteItems == UserItems \cup { QueueItem(<<Lit(<<"q">>)>>, <<"v">>),
                             QueueItem(<<Lit(<<"q">>)>>, <<"w">>) }

InitC == NoPipeline /\ NoMatchPass /\ NoStages /\ NoTrieStage

NextC ==
    \/ \E item \in CteItems : EnqueueSql(item)
    \/ GenerateCtePipelineSql

SpecCTE == InitC /\ [][NextC]_vars

InitS == InitStages /\ NoMatchPass /\ NoPipeline /\ NoTrieStage

NextS ==
    \/ \E spec \in FragSpecs : StepsFactory(spec)
    \/ \E spec \in FragSpecs : CoreFactory(spec)
    \/ \E spec \in FragSpecs : DirectStage(spec)
    \/ \E k \in 1..MaxBuilt : \E field \in StageFields : Mutate(k, field)

SpecStages == InitS /\ [][NextS]_vars

\* ------------------------------ specification of the exact-match stage
\* The stage annotate_exact_matches applied once to a fuzzy relation whose
\* rows may come in resolved (fuzzy_input_name = "unmatched_records"), behind
\* the pre-filter stage restrict_canonical_to_fuzzy_postcodes it depends on.
IncomingRow(i, k, r) ==
    [FuzzyRow(i, k) EXCEPT !.resolved_canonical_id = r,
                           !.match_reason = IF r = NULL THEN UNMATCHED
                                            ELSE TRIE]

InitExact ==
    /\ implementation = "annotate_exact_matches"
    /\ \E n \in 0..MaxCanon : \E s \in [1..n -> ContentCodes] :
          /\ IsSortedCodes(s)
          /\ canonical_addresses = { CanonRow(i, s[i]) : i \in 1..n }
    /\ \E n \in 0..MaxFuzzy : \E s \in [1..n -> ContentCodes] :
          /\ IsSortedCodes(s)
          /\ \E r \in [1..n -> {NULL} \cup { c.unique_id :
                                                c \in canonical_addresses }] :
                fuzzy_addresses =
                    { IncomingRow(i, s[i], r[i]) : i \in 1..n }
    /\ canonical_addresses_restricted = {}
    /\ postcode_group_tries = {}
    /\ raw_trie_matches = {}
    /\ fuzzy_with_resolved_matches = EmptyBag
    /\ trie_pc = "input"

\* the stage: the "exact" pre-filter, then the annotated_exact_matches
\* fragment
AnnotateExactStaged ==
    /\ trie_pc = "input"
    /\ implementation = "annotate_exact_matches"
    /\ canonical_addresses_restricted' =
          RestrictCanonicalExact(fuzzy_addresses, canonical_addresses)
    /\ fuzzy_with_resolved_matches' =
          AnnotateExactMatches(fuzzy_addresses, canonical_addresses)
    /\ trie_pc' = "done"
    /\ UNCHANGED <<implementation, fuzzy_addresses, canonical_addresses,
                   postcode_group_tries, raw_trie_matches>>
    /\ UNCHANGED <<matchVars, pipeVars, stageVars>>

InitE == InitExact /\ NoMatchPass /\ NoPipeline /\ NoStages

NextE == AnnotateExactStaged

SpecExact == InitE /\ [][NextE]_vars

InitT == InitTrie /\ NoMatchPass /\ NoPipeline /\ NoStages

NextT ==
    \/ ResolveWithTrieStaged
    \/ ResolveWithTrieOfModel

SpecTrie == InitT /\ [][NextT]_vars
\* ================================================================ claims
Composed == "generate_cte_pipeline_sql"

\* C1: on any pipeline, a second compose (generate_cte_pipeline_sql with
\* mark_spent=True) raises the spent-pipeline error instead of returning text.
C1_SecondComposeRaises ==
    \A i \in 1..Len(calls) : \A j \in 1..Len(calls) :
        (i < j /\ calls[i].op = Composed /\ calls[j].op = Composed)
            => (~ calls[j].ok /\ calls[j].err = SpentError)

\* ------------------------------------------------ match pass: vocabulary
Finished == pc = "done" /\ result.kind = "relation"

\* the rows of the final output that carry the row id
OutRowsOf(id) == BagRowsWithIds(result.rel, {id})

\* the canonical rows equal to the fuzzy row on address and postcode
ExactEquals(f) ==
    { c \in df_addresses_to_search_within :
        c.address_tokens = f.address_tokens /\ c.postcode = f.postcode }

\* the canonical rows of the fuzzy row's postcode group that end in its tokens
SuffixMatches(f) ==
    { c \in df_addresses_to_search_within :
        /\ SubSeq(c.postcode, 1, Len(c.postcode) - 1)
               = SubSeq(f.postcode, 1, Len(f.postcode) - 1)
        /\ Len(f.address_tokens) <= Len(c.address_tokens)
        /\ SubSeq(c.address_tokens,
                  Len(c.address_tokens) - Len(f.address_tokens) + 1,
                  Len(c.address_tokens)) = f.address_tokens }

\* the accumulated records that resolve the row id
ResolvingRecords(id) ==
    IF matches_union.is_none THEN {}
    ELSE { m \in DOMAIN matches_union.rel :
             m.ukam_address_id = id /\ m.match_reason \in {EXACT, TRIE} }

\* C2: completeness - the final output holds every fuzzy row exactly once, so
\* its row count is the input row count, for every valid list of stages.
C2_Completeness ==
    Finished =>
        /\ BagCardinality(result.rel) = Cardinality(df_addresses_to_match)
        /\ \A f \in df_addresses_to_match :
              BagCardinality(OutRowsOf(f.ukam_address_id)) = 1

\* a finished pass over two fuzzy rows, one resolved against a duplicated
\* canonical address and one unresolved, with the trie stage enabled
C2_Witness ==
    /\ Finished
    /\ Cardinality(df_addresses_to_match) = 2
    /\ ordered = <<EXACT_MATCHES, TRIE_STAGE>>
    /\ \E f \in df_addresses_to_match : Cardinality(ExactEquals(f)) = 2
    /\ \E f \in df_addresses_to_match : ExactEquals(f) = {}

\* C3: precedence - a row the exact-match stage resolves keeps that canonical
\* id and reason EXACT in the final output, whatever the later stages are.
C3_Precedence ==
    Finished =>
        \A f \in df_addresses_to_match :
            ExactEquals(f) # {} =>
                \A r \in DOMAIN OutRowsOf(f.ukam_address_id) :
                    /\ r.match_reason = EXACT
                    /\ \E c \in ExactEquals(f) :
                          /\ r.resolved_canonical_id = c.unique_id
                          /\ \A d \in ExactEquals(f) : c.unique_id <= d.unique_id

\* a finished pass with the trie stage enabled and an exactly matched row
\* whose tokens also end another canonical address of its postcode group
C3_Witness ==
    /\ Finished
    /\ ordered = <<EXACT_MATCHES, TRIE_STAGE>>
    /\ \E f \in df_addresses_to_match :
          /\ ExactEquals(f) # {}
          /\ SuffixMatches(f) \ ExactEquals(f) # {}
          /\ \E r \in DOMAIN OutRowsOf(f.ukam_address_id) :
                r.match_reason = EXACT

\* C4: only the rows a stage resolved are added to accumulated_matches; a row
\* the stage left unresolved is not in it.
C4_OnlyResolvedAccumulated ==
    (~ matches_union.is_none) =>
        \A m \in DOMAIN matches_union.rel :
            /\ m.match_reason \in {EXACT, TRIE}
            /\ m.resolved_canonical_id # NULL

\* C5: the unresolved set handed to a stage is exactly the fuzzy rows whose
\* row id is not among the accumulated matches, and the whole fuzzy input on
\* the first iteration.
C5_AntiJoin ==
    pc = "check" =>
        /\ df_fuzzy_unmatched =
              df_addresses_to_match \
                 { f \in df_addresses_to_match :
                     /\ ~ matches_union.is_none
                     /\ f.ukam_address_id \in
                           { m.ukam_address_id : m \in DOMAIN matches_union.rel } }
        /\ stage_idx = 1 => df_fuzzy_unmatched = df_addresses_to_match

\* the second stage is about to be decided with matches accumulated from the
\* first over a fuzzy input of two rows
C5_Witness ==
    /\ pc = "check"
    /\ stage_idx = 2
    /\ ~ matches_union.is_none
    /\ Cardinality(df_addresses_to_match) = 2
    /\ df_fuzzy_unmatched # df_addresses_to_match

\* C6: with the trie stage enabled, a row without exact match whose tokens
\* are a suffix of exactly one canonical address of its postcode group comes
\* out TRIE with that address; a row no canonical suffix matches, UNMATCHED.
C6_TrieEndToEnd ==
    (Finished /\ ordered = <<EXACT_MATCHES, TRIE_STAGE>>) =>
        \A f \in df_addresses_to_match :
            ExactEquals(f) = {} =>
                \A r \in DOMAIN OutRowsOf(f.ukam_address_id) :
                    /\ Cardinality(SuffixMatches(f)) = 1 =>
                          /\ r.match_reason = TRIE
                          /\ \E c \in SuffixMatches(f) :
                                r.resolved_canonical_id = c.unique_id
                    /\ SuffixMatches(f) = {} =>
                          /\ r.match_reason = UNMATCHED
                          /\ r.resolved_canonical_id = NULL

\* C7: once the unresolved set is empty before a stage, no further stage is
\* run and the accumulated matches stay as they are until they are finalised.
C7_ShortCircuit ==
    [][ ( \/ pc = "check" /\ df_fuzzy_unmatched = {}
          \/ pc = "finalise" )
        => /\ stages_run' = stages_run
           /\ matches_union' = matches_union
           /\ pc' \in {"finalise", "done"}
           /\ (pc' = "done" /\ ~ explain /\ ~ matches_union.is_none) =>
                 \A r \in DOMAIN result'.rel :
                     \E m \in DOMAIN matches_union.rel :
                         /\ m.ukam_address_id = r.ukam_address_id
                         /\ m.resolved_canonical_id = r.resolved_canonical_id
                         /\ m.match_reason = r.match_reason ]_vars

\* the pass finished with the trie stage skipped by the early exit
C7_Witness ==
    /\ Finished
    /\ ordered = <<EXACT_MATCHES, TRIE_STAGE>>
    /\ stages_run = <<EXACT_MATCHES>>
    /\ df_fuzzy_unmatched = {}
    /\ df_addresses_to_match # {}

\* C8: stages run in the order always-on exact-match first, then the optional
\* stages as the caller listed them, each at most once.
C8_StageOrder ==
    /\ Len(stages_run) <= 1 + Len(enabled_stage_names)
    /\ \A i \in 1..Len(stages_run) :
          stages_run[i] = IF i = 1 THEN EXACT_MATCHES
                          ELSE enabled_stage_names[i - 1]
    /\ \A i \in 1..Len(stages_run) : \A j \in 1..Len(stages_run) :
          stages_run[i] = stages_run[j] => i = j

\* both stages have been run
C8_Witness ==
    /\ enabled_stage_names = <<TRIE_STAGE>>
    /\ stages_run = <<EXACT_MATCHES, TRIE_STAGE>>

\* ---------------------------------------------------- stage list validity
Offending(i) ==
    \/ enabled_stage_names[i] \notin StageName
    \/ enabled_stage_names[i] = EXACT_MATCHES
    \/ \E j \in 1..(i - 1) : enabled_stage_names[j] = enabled_stage_names[i]

\* both relations declare every required column: validate_tables passes
SchemaValid == columns.fuzzy = RequiredColumns
               /\ columns.canonical = RequiredColumns

InvalidEnabled == SchemaValid
                  /\ \E i \in 1..Len(enabled_stage_names) : Offending(i)

FirstOffending ==
    CHOOSE i \in 1..Len(enabled_stage_names) :
        Offending(i) /\ \A j \in 1..(i - 1) : ~ Offending(j)

\* C9 as stated: an invalid stage list fails with an error that lists the
\* valid stages, before any stage is built or run.
C9_RejectedListingStages ==
    (InvalidEnabled /\ pc # "start") =>
        /\ pc = "error"
        /\ error.kind # "none"
        /\ error.listed = available_deterministic_stages
        /\ stages_run = <<>>
        /\ matches_union.is_none

\* C9 as amended: an invalid stage list fails with a ValueError for its first
\* offending item before any stage is built or run; the error lists the
\* stages that can be enabled when that item is an unknown name, and names
\* only the item when it is the always-on stage or a duplicate.
C9_Rejected ==
    (InvalidEnabled /\ pc # "start") =>
        /\ pc = "error"
        /\ error.kind # "none"
        /\ error.item = enabled_stage_names[FirstOffending]
        /\ error.listed =
              IF enabled_stage_names[FirstOffending] \notin StageName
              THEN StageName \ {EXACT_MATCHES}
              ELSE {}
        /\ stages_run = <<>>
        /\ matches_union.is_none
        /\ result = Pending

\* a duplicated optional stage has been rejected
C9_Witness ==
    /\ pc = "error"
    /\ enabled_stage_names = <<TRIE_STAGE, TRIE_STAGE>>
    /\ error.kind = "duplicate"

Called == Len(calls') = Len(calls) + 1 /\ SubSeq(calls', 1, Len(calls)) = calls

LastCall == calls[Len(calls)]

AddStepOk(step) == Ret("add_step", step, TRUE, "", NoText)

\* C11: enqueue_sql on a composed (spent) pipeline raises the spent-pipeline
\* error and leaves the queue as it was; on an unspent pipeline it appends
\* exactly the given (sql, alias) pair at the end of the queue.
C11_Enqueue ==
    [][ /\ (\E i \in 1..Len(calls) : calls[i].op = Composed) => spent
        /\ (Called /\ LastCall'.op = "enqueue_sql") =>
              IF spent
              THEN /\ ~ LastCall'.ok
                   /\ LastCall'.err = SpentError
                   /\ queue' = queue
              ELSE /\ LastCall'.ok
                   /\ Len(queue') = Len(queue) + 1
                   /\ SubSeq(queue', 1, Len(queue)) = queue
                   /\ queue'[Len(queue')] = LastCall'.arg ]_vars

\* an enqueue succeeded, the pipeline was composed, an enqueue was refused
C11_Witness ==
    /\ Len(calls) = 3
    /\ calls[1].op = "enqueue_sql" /\ calls[1].ok
    /\ calls[2].op = Composed /\ calls[2].ok
    /\ calls[3].op = "enqueue_sql" /\ ~ calls[3].ok
    /\ Len(queue) = 2

\* C12: whatever the run options, a successful run leaves the pipeline spent
\* and a run after it raises the spent-pipeline error instead of executing
\* the composed query again.
C12_SecondRunRaises ==
    /\ \A i \in 1..Len(calls) : (calls[i].op = "run" /\ calls[i].ok) => spent
    /\ \A i \in 1..Len(calls) : \A j \in 1..Len(calls) :
          (i < j /\ calls[i].op = "run" /\ calls[i].ok /\ calls[j].op = "run")
              => (~ calls[j].ok /\ calls[j].err = SpentError)

\* every (sql, alias) pair enqueued so far by the constructor, add_step and
\* the checkpoints: those of the composed checkpoint queries, then the queue
RECURSIVE BlockItems(_)
BlockItems(blocks) ==
    IF blocks = <<>> THEN <<>>
    ELSE blocks[1].sql.ctes \o BlockItems(Tail(blocks))

EverEnqueued == BlockItems(_materialised_sql_blocks) \o queue

OnlyAddSteps == \A i \in 1..Len(calls) : calls[i].op = "add_step"

\* C13: after any sequence of add_step calls no two aliases ever enqueued
\* on the pipeline are equal.
C13_AliasUniqueness ==
    OnlyAddSteps =>
        \A a \in 1..Len(EverEnqueued) : \A b \in 1..Len(EverEnqueued) :
            EverEnqueued[a].alias = EverEnqueued[b].alias => a = b

\* the queue of an independently constructed pipeline over the same input
\* relation, whose _uid draw was u, after add_step of the same stage
OtherQueue(u, step) ==
    <<QueueItem(SelectFrom(SrcName), SeedAlias(u))>>
        \o render_step_to_ctes(step, 0, SeedAlias(u)).ctes

\* C14: a pipeline and any independently constructed pipeline given the same
\* input relation and the same stage compose the same query text.
C14_Determinism ==
    [][ \A step \in PipelineStages :
          (calls = <<>> /\ calls' = <<AddStepOk(step)>> /\ ~ step.checkpoint)
              => \A u \in Uids :
                    generate_cte_pipeline_sql(queue', spent').text =
                        generate_cte_pipeline_sql(OtherQueue(u, step),
                                                  FALSE).text ]_vars

\* the alias of the stage's designated output fragment, its last fragment
\* when none is designated
DesignatedAlias(step, step_idx) ==
    FragAlias(step_idx, step.name,
              IF step.output # <<>> THEN step.output
              ELSE step.steps[Len(step.steps)].name)

\* C15: after add_step of a stage (no checkpoint) the current output is the
\* alias of its designated output fragment: it is what the next add_step
\* substitutes for {input} and what the composed query's final SELECT reads.
C15_DesignatedOutput ==
    [][ \A step \in PipelineStages :
          (Called /\ LastCall' = AddStepOk(step) /\ ~ step.checkpoint) =>
              /\ _current_output_alias' =
                     DesignatedAlias(step, _step_counter)
              /\ output_table_name(queue') =
                     DesignatedAlias(step, _step_counter)
              /\ generate_cte_pipeline_sql(queue', spent').text.final =
                     DesignatedAlias(step, _step_counter) ]_vars

\* a seed entry: SELECT * FROM the input or a materialised relation, under
\* an alias seed_<uid>
IsSeed(item) ==
    /\ \E u \in Uids : item.alias = SeedAlias(u)
    /\ \E n \in {SrcName} \cup { SegName(u) : u \in Uids } :
          item.sql = SelectFrom(n)

\* C19: in every state of a DuckDBPipeline the queue holds at least one entry
\* and its first entry is a seed entry.
C19_QueueSeeded == queue # <<>> /\ IsSeed(queue[1])

\* a checkpoint has reseeded the queue and a later stage has been added
C19_Witness ==
    /\ Len(_materialised_sql_blocks) = 1
    /\ Len(queue) >= 2
    /\ queue[1].sql = SelectFrom(_materialised_sql_blocks[1].name)

\* C20: add_step of a checkpoint stage composes the whole queue (the stage's
\* fragments included) into one query, materialises it under a fresh
\* relation name, appends exactly one checkpoint record (that query, that
\* name) and leaves a queue of exactly one seed entry reading that relation.
C20_Checkpoint ==
    [][ \A step \in PipelineStages :
          (Called /\ LastCall' = AddStepOk(step) /\ step.checkpoint) =>
              \E u \in Uids :
                 LET tmp == SegName(u)
                     whole == queue \o
                         render_step_to_ctes(step, _step_counter,
                                             output_table_name(queue)).ctes
                 IN  /\ tmp \notin Tables(con)
                     /\ tmp \in Tables(con')
                     /\ _materialised_sql_blocks' =
                           Append(_materialised_sql_blocks,
                                  [sql |-> generate_cte_pipeline_sql(
                                               whole, spent).text,
                                   name |-> tmp])
                     /\ Len(queue') = 1
                     /\ IsSeed(queue'[1])
                     /\ queue'[1].sql = SelectFrom(tmp) ]_vars

\* ----------------------------------------------------- stages: vocabulary
NoEngineCall == con = [registered |-> {}, temp |-> {}, preludes |-> <<>>,
            setup |-> <<>>, catalog |-> {}]

\* C16: a Stage whose fragment names are not pairwise distinct fails at
\* construction, by a stage factory or written out as a Stage value, and no
\* engine call has been made when it fails.
C16_DuplicatesRejected ==
    \A k \in 1..Len(built) :
        HasDuplicateNames(built[k].spec) =>
            /\ ~ built[k].ok
            /\ built[k].err = DuplicateNamesError
            /\ NoEngineCall

\* C17: a Stage with zero fragments cannot be constructed: construction
\* fails with a configuration error.
C17_EmptyRejected ==
    \A k \in 1..Len(built) :
        built[k].spec = <<>> =>
            /\ ~ built[k].ok
            /\ built[k].err = EmptyStepsError

\* the value a holder of the Stage reads: every mutable part by its content
Deref(h, id) == IF id = 0 THEN [is_none |-> TRUE, v |-> <<>>]
                ELSE [is_none |-> FALSE, v |-> h[id]]

View(h, st) ==
    [steps |-> Deref(h, st.steps), tags |-> Deref(h, st.tags),
     depends_on |-> Deref(h, st.depends_on),
     registers |-> Deref(h, st.registers),
     preludes |-> Deref(h, st.preludes)]

Some(v) == [is_none |-> FALSE, v |-> v]

\* the Stage the factory's arguments describe
Described(way, spec) ==
    [steps |-> Some(spec),
     tags |-> IF way = STEPS THEN Some(DecoTags) ELSE Deref(heap, 0),
     depends_on |-> Some(DecoDependsOn),
     registers |-> Some(DecoRegisters),
     preludes |-> Some(DecoPreludes)]

Factories == {STEPS, CORE}

\* C18: two results of one stage factory called with the same arguments
\* share no mutable state: changing a mutable part of one leaves the other
\* as it was, and every later result of the factory is the Stage its
\* arguments describe.
C18_FactoryIndependence ==
    [][ /\ \A k \in 1..Len(built) : \A field \in StageFields :
              Mutate(k, field) =>
                  \A j \in 1..Len(built) :
                      ( /\ j # k
                        /\ built[j].ok
                        /\ built[j].way \in Factories
                        /\ built[j].way = built[k].way
                        /\ built[j].spec = built[k].spec )
                          => View(heap', built[j].stage) =
                                 View(heap, built[j].stage)
        /\ (Len(built') = Len(built) + 1
            /\ built'[Len(built')].ok
            /\ built'[Len(built')].way \in Factories)
              => View(heap', built'[Len(built')].stage) =
                     Described(built'[Len(built')].way,
                               built'[Len(built')].spec) ]_vars

C25_FailureAborts ==
    [][ /\ (error'.kind = "engine" =>
               /\ pc' = "error"
               /\ result' = Pending
               /\ stages_run' # <<>>
               /\ error'.item = stages_run'[Len(stages_run')]
               /\ executed' = stages_run')
        /\ (error.kind = "engine" => UNCHANGED vars) ]_vars

\* a stage failed while later stages were still to come
C25_Witness ==
    /\ error.kind = "engine"
    /\ pc = "error"
    /\ stage_idx < Len(ordered)
    /\ Len(stages_run) = 1

\* C26: both relations are validated for the four required columns before
\* any stage is built or run: on a relation that lacks one of them the pass
\* fails with an error naming every missing column of both relations, with no
\* stage list built, no stage run and nothing executed.
C26_SchemaFirst ==
    /\ (pc # "start" /\ ~ SchemaValid) =>
          /\ pc = "error"
          /\ error.kind = "schema"
          /\ error.missing =
                { ColumnRef("fuzzy_addresses", c) :
                      c \in RequiredColumns \ columns.fuzzy }
                \cup { ColumnRef("canonical_addresses", c) :
                           c \in RequiredColumns \ columns.canonical }
          /\ ordered = <<>>
          /\ stages_run = <<>>
          /\ executed = <<>>
          /\ result = Pending
    /\ (stages_run # <<>> \/ ordered # <<>>) => SchemaValid

\* both relations lack columns and the stage list is invalid as well: the
\* schema error is the one raised
C26_Witness ==
    /\ pc = "error"
    /\ columns.fuzzy # RequiredColumns
    /\ columns.canonical # RequiredColumns
    /\ enabled_stage_names = <<TRIE_STAGE, TRIE_STAGE>>
    /\ error.kind = "schema"

\* ------------------------------------------------- one-shot and checkpoints
CheckpointAt(i) ==
    calls[i].op = "add_step" /\ calls[i].ok /\ calls[i].arg.checkpoint

\* a stage whose rendering does not fail on its own shape
Renderable(step) == render_step_to_ctes(step, 0, <<"x">>).ok

\* C21 without its last part: after checkpoint stages the pipeline is unspent
\* and further stages can be added.
CheckpointLeavesUnspent ==
    /\ (OnlyAddSteps /\ \E i \in 1..Len(calls) : CheckpointAt(i)) => ~ spent
    /\ \A i \in 1..Len(calls) :
          ( /\ calls[i].op = "add_step"
            /\ Renderable(calls[i].arg)
            /\ \A j \in 1..(i - 1) : calls[j].op = "add_step"
            /\ \E j \in 1..(i - 1) : CheckpointAt(j) )
          => calls[i].ok

\* C21: after checkpoint stages the pipeline is unspent, further stages can
\* be added, and of the composes that follow exactly the first succeeds.
C21_CheckpointKeepsOneShot ==
    /\ CheckpointLeavesUnspent
    /\ ( /\ \E i \in 1..Len(calls) : CheckpointAt(i)
         /\ \A i \in 1..Len(calls) : calls[i].op \in {"add_step", Composed} )
       => \A i \in 1..Len(calls) :
             calls[i].op = Composed =>
                 (calls[i].ok <=>
                     ~ \E k \in 1..(i - 1) : calls[k].op = Composed)

\* C22: spent is absorbing: no call (enqueue_sql, add_step with or without a
\* checkpoint, compose, run on any path) takes a spent pipeline back to unspent.
C22_SpentAbsorbing == [][spent => spent']_vars

\* a pipeline was composed, then a checkpoint stage and an incremental run
\* were tried on it
C22_Witness ==
    /\ spent
    /\ Len(calls) = 3
    /\ calls[1].op = Composed
    /\ calls[2].op = "add_step" /\ calls[2].arg.checkpoint
    /\ calls[3].op = "run" /\ calls[3].arg.debug_incremental

\* the set-up calls add_step owes a stage: its bindings, then its preludes
SetupOf(step) ==
    [i \in 1..(Len(step.registers) + Len(step.preludes)) |->
        IF i <= Len(step.registers)
        THEN [op |-> "register", name |-> step.registers[i]]
        ELSE [op |-> "prelude",
              name |-> step.preludes[i - Len(step.registers)]]]

RenderedBy(step, q, blocks) ==
    LET all == IF step.checkpoint THEN blocks[Len(blocks)].sql.ctes ELSE q
    IN  SubSeq(all, Len(all) - Len(step.steps) + 1, Len(all))

\* C29: in the rendered fragment i every {input} token is the alias that
\* ended the queue before the call, every {name} token naming a fragment
\* j < i of the stage is that fragment's alias, and every other token (naming
\* fragment i itself, a later fragment, or none) is left as it was; a stage
\* with such tokens is still rendered and added (add_step fails on it only
\* when the engine fails in the stage's checkpoint).
C29_Placeholders ==
    [][ \A step \in PipelineStages :
          /\ ( /\ Called /\ LastCall'.op = "add_step" /\ LastCall'.arg = step
               /\ ~ spent /\ step.steps # <<>> /\ step.output = <<>> )
             => \/ LastCall'.ok
                \/ step.checkpoint /\ LastCall'.err = EngineError
          /\ (Called /\ LastCall' = AddStepOk(step)) =>
               LET out == RenderedBy(step, queue', _materialised_sql_blocks')
               IN  /\ Len(out) = Len(step.steps)
                   /\ \A i \in 1..Len(step.steps) :
                        /\ Len(out[i].sql) = Len(step.steps[i].sql)
                        /\ \A k \in 1..Len(step.steps[i].sql) :
                             LET tok == step.steps[i].sql[k]
                             IN  out[i].sql[k] =
                                 IF tok.t = "ph" /\ tok.v = InputName
                                 THEN Ref(queue[Len(queue)].alias)
                                 ELSE IF /\ tok.t = "ph"
                                         /\ \E j \in 1..(i - 1) :
                                               step.steps[j].name = tok.v
                                 THEN Ref(FragAlias(_step_counter, step.name,
                                                    tok.v))
                                 ELSE tok ]_vars

\* a stage was added whose first fragment names a later fragment and no
\* fragment at all and whose second names itself: the three tokens are still
\* in the queue, next to the replaced ones
C29_Witness ==
    /\ Len(queue) >= 3
    /\ queue[Len(queue) - 1].sql =
          <<Ref(queue[Len(queue) - 2].alias), Ph(<<"g">>), Ph(<<"h">>)>>
    /\ queue[Len(queue)].sql =
          <<Ref(queue[Len(queue) - 1].alias), Ph(<<"g">>)>>

\* C30: the query a compose returns has one sub-query per entry of the
\* current queue, in queue order and with the entry's sql and alias, and its
\* final SELECT reads the alias of the last entry; what an earlier
\* checkpoint removed from the queue is not in it.
C30_ComposeQueue ==
    [][ (Called /\ LastCall'.op = Composed) =>
          /\ LastCall'.ok
          /\ Len(LastCall'.text.ctes) = Len(queue)
          /\ \A i \in 1..Len(queue) : LastCall'.text.ctes[i] = queue[i]
          /\ LastCall'.text.final = queue[Len(queue)].alias
          /\ \A b \in 1..Len(_materialised_sql_blocks) :
                \A i \in 1..Len(_materialised_sql_blocks[b].sql.ctes) :
                   \A k \in 1..Len(LastCall'.text.ctes) :
                      LastCall'.text.ctes[k] =
                          _materialised_sql_blocks[b].sql.ctes[i]
                      => \E n \in 1..Len(queue) : queue[n] = LastCall'.text.ctes[k]
      ]_vars

\* a compose after a checkpoint and a further stage: the seed of the
\* checkpoint and the fragments of the stage, the last one read
C30_Witness ==
    /\ Len(calls) = 3
    /\ LastCall.op = Composed /\ LastCall.ok
    /\ Len(_materialised_sql_blocks) = 1
    /\ Len(LastCall.text.ctes) = 3
    /\ LastCall.text.ctes = queue
    /\ LastCall.text.final = queue[3].alias

\* ------------------------------------------------------------ trie stage
Applied == trie_pc = "done"

\* the canonical rows the tries were built from
RowsInTries ==
    { c \in canonical_addresses :
        \E t \in postcode_group_tries : \E e \in t.trie :
            e.ukam_address_id = c.ukam_address_id }

\* the canonical ids the matches of the earlier stage use
UsedCanonicalIds ==
    { f.resolved_canonical_id : f \in fuzzy_addresses } \ {NULL}

Unresolved == { f \in fuzzy_addresses : f.resolved_canonical_id = NULL }

TriesFromUnusedCanonicalInModel ==
    (Applied /\ implementation = "exact_matching_model") =>
        \A c \in RowsInTries :
            /\ c.unique_id \notin UsedCanonicalIds
            /\ \E f \in Unresolved : f.postcode = c.postcode

\* of the staged trie stage, the exclusion of used canonical ids alone
StagedTriesExcludeUsedIds ==
    (Applied /\ implementation = "resolve_with_trie") =>
        \A c \in RowsInTries : c.unique_id \notin UsedCanonicalIds

\* the rows of the stage output that carry the row id
ResolvedRowsOf(id) == BagRowsWithIds(fuzzy_with_resolved_matches, {id})

\* C28: in the trie stage of resolve_with_trie.py a fuzzy row is looked up
\* at most once, in the trie of its own postcode group and no other; a row
\* whose group has no trie or whose lookup found no path comes out with the
\* resolved id and the match_reason it came in with; every input row is in
\* the output exactly once and nothing else is.
C28_LookupInOwnGroup ==
    (Applied /\ implementation = "resolve_with_trie") =>
        /\ BagCardinality(fuzzy_with_resolved_matches)
               = Cardinality(fuzzy_addresses)
        /\ \A f \in fuzzy_addresses :
              LET lookups == { m \in raw_trie_matches :
                                 m.fuzzy_ukam_address_id = f.ukam_address_id }
                  own == { t \in postcode_group_tries :
                             t.postcode_group = postcode_group(f.postcode) }
                  miss == \A m \in lookups :
                              m.canonical_ukam_address_id = NULL
              IN  /\ BagCardinality(ResolvedRowsOf(f.ukam_address_id)) = 1
                  /\ Cardinality(lookups) = Cardinality(own)
                  /\ Cardinality(own) <= 1
                  /\ \A m \in lookups :
                        m.canonical_ukam_address_id # NULL =>
                            \E t \in own : \E e \in t.trie :
                                e.ukam_address_id = m.canonical_ukam_address_id
                  /\ miss =>
                        \A o \in DOMAIN ResolvedRowsOf(f.ukam_address_id) :
                            /\ o.resolved_canonical_id = f.resolved_canonical_id
                            /\ o.match_reason = f.match_reason
                  /\ ~ miss =>
                        \A o \in DOMAIN ResolvedRowsOf(f.ukam_address_id) :
                            /\ o.match_reason = TRIE
                            /\ \E c \in canonical_addresses :
                                  /\ c.unique_id = o.resolved_canonical_id
                                  /\ postcode_group(c.postcode) =
                                        postcode_group(f.postcode)

\* one row came in resolved by the exact stage and missed, and keeps both
\* values; another row was resolved by the trie of its group
C28_Witness ==
    /\ Applied /\ implementation = "resolve_with_trie"
    /\ \E f \in fuzzy_addresses : \E g \in fuzzy_addresses :
          /\ f.resolved_canonical_id # NULL
          /\ \A m \in raw_trie_matches :
                m.fuzzy_ukam_address_id = f.ukam_address_id
                    => m.canonical_ukam_address_id = NULL
          /\ \E o \in DOMAIN ResolvedRowsOf(f.ukam_address_id) :
                /\ o.match_reason = EXACT
                /\ o.resolved_canonical_id = f.resolved_canonical_id
          /\ g.resolved_canonical_id = NULL
          /\ \E o \in DOMAIN ResolvedRowsOf(g.ukam_address_id) :
                o.match_reason = TRIE

\* ------------------------------------------------------- the stage index
\* the stage index over the calls that end otherwise than by an engine
\* failure inside a checkpoint
StepCounterOutsideCheckpointFailure ==
    [][ /\ ( /\ Called /\ LastCall'.op = "add_step" /\ ~ LastCall'.ok
             /\ LastCall'.err # EngineError )
           => _step_counter' = _step_counter
        /\ (Called /\ LastCall'.op = "add_step" /\ LastCall'.ok)
           => _step_counter' = _step_counter + 1
        /\ (Called /\ LastCall'.op # "add_step")
           => _step_counter' = _step_counter ]_vars

\* C31: the stage index is 0 on a new pipeline, grows by exactly one on a
\* successful add_step, whose fragments are enqueued in declaration order
\* under aliases of the index before the call, is left alone by every other
\* call (a checkpoint never resets it), and is not advanced by an add_step
\* that fails.
C31_StepCounter ==
    [][ /\ (calls = <<>> => _step_counter = 0)
        /\ \A step \in PipelineStages :
              (Called /\ LastCall' = AddStepOk(step)) =>
                 /\ _step_counter' = _step_counter + 1
                 /\ LET out == RenderedBy(step, queue',
                                          _materialised_sql_blocks')
                    IN  \A i \in 1..Len(step.steps) :
                           out[i].alias = FragAlias(_step_counter, step.name,
                                                    step.steps[i].name)
        /\ (Called /\ LastCall'.op = "add_step" /\ ~ LastCall'.ok)
           => _step_counter' = _step_counter
        /\ (Called /\ LastCall'.op # "add_step")
           => _step_counter' = _step_counter ]_vars

\* ------------------------------------------------------ failed checkpoints
\* C35: every checkpoint record names a relation the engine created, and an
\* add_step whose checkpoint fails in the engine adds no record and leaves
\* the queue as the stage's fragments left it.
C35_RecordsNameRelations ==
    [][ /\ \A b \in 1..Len(_materialised_sql_blocks') :
              _materialised_sql_blocks'[b].name \in con'.temp
        /\ \A step \in PipelineStages :
              ( /\ Called /\ LastCall'.op = "add_step" /\ LastCall'.arg = step
                /\ step.checkpoint /\ LastCall'.err = EngineError )
              => /\ _materialised_sql_blocks' = _materialised_sql_blocks
                 /\ queue' = queue \o render_step_to_ctes(
                                         step, _step_counter,
                                         output_table_name(queue)).ctes
      ]_vars

\* the queue part of C35 alone
FailedCheckpointKeepsQueue ==
    [][ \A step \in PipelineStages :
          ( /\ Called /\ LastCall'.op = "add_step" /\ LastCall'.arg = step
            /\ step.checkpoint /\ LastCall'.err = EngineError )
          => queue' = queue \o render_step_to_ctes(
                                  step, _step_counter,
                                  output_table_name(queue)).ctes ]_vars

\* ------------------------------------------------------------ the preview
\* C32: the preview changes nothing in the pipeline: after
\* debug(materialise=False), whether the engine showed every query or
\* failed on one, and after a run with debug_mode that ended in its preview,
\* the queue, the spent flag, the checkpoint records and the relations of
\* the connection are as before; a run with debug_mode that went on to
\* compose differs from a run without it in nothing.
C32_PreviewChangesNothing ==
    [][ /\ ( /\ Called
             /\ \/ LastCall'.op = "debug" /\ ~ LastCall'.arg.materialise
                \/ /\ LastCall'.op = "run"
                   /\ LastCall'.arg.debug_mode
                   /\ ~ LastCall'.arg.debug_incremental
                   /\ ~ spent'
                   /\ LastCall'.err = EngineError )
           => /\ queue' = queue
              /\ spent' = spent
              /\ _materialised_sql_blocks' = _materialised_sql_blocks
              /\ con' = con
        /\ ( /\ Called /\ LastCall'.op = "run"
             /\ LastCall'.arg.debug_mode
             /\ ~ LastCall'.arg.debug_incremental )
           => /\ queue' = queue
              /\ _materialised_sql_blocks' = _materialised_sql_blocks
              /\ con' = con ]_vars

\* a preview of a queue of three entries on an unspent pipeline was followed
\* by an enqueue that was accepted
C32_Witness ==
    /\ Len(calls) = 3
    /\ calls[2].op = "debug" /\ ~ calls[2].arg.materialise /\ calls[2].ok
    /\ calls[3].op = "enqueue_sql" /\ calls[3].ok
    /\ Len(queue) = 4
    /\ ~ spent

\* ------------------------------------------------------- failed add_step
\* C34: an add_step that fails because the pipeline is spent or because the
\* designated output names no fragment has no effect: the queue, the stage
\* index and the relation bindings of the connection are as before, and no
\* set-up call was made.
C34_FailedAddStepNoEffect ==
    [][ ( /\ Called /\ LastCall'.op = "add_step" /\ ~ LastCall'.ok
          /\ LastCall'.err \in {SpentError, "KeyError"} )
        => /\ queue' = queue
           /\ _step_counter' = _step_counter
           /\ con'.registered = con.registered
           /\ con'.setup = con.setup ]_vars

\* the queue and the stage index after such a call
FailedAddStepKeepsQueue ==
    [][ ( /\ Called /\ LastCall'.op = "add_step" /\ ~ LastCall'.ok
          /\ LastCall'.err \in {SpentError, "KeyError"} )
        => /\ queue' = queue
           /\ _step_counter' = _step_counter
           /\ spent' = spent
           /\ _materialised_sql_blocks' = _materialised_sql_blocks ]_vars

\* --------------------------------------------------------- failed compose
\* the error of a compose call on an empty queue
EmptyError == "ValueError: Empty pipeline."

\* C33: a compose call that fails on an empty queue leaves the pipeline as
\* it was: the spent flag is still false, and an enqueue that follows such
\* a call is accepted.
C33_FailedComposeNoEffect ==
    [][ /\ ( /\ Called /\ LastCall'.op = "generate_cte_pipeline_sql"
             /\ LastCall'.err = EmptyError )
           => /\ queue' = queue
              /\ spent' = spent
        /\ ( /\ Called /\ LastCall'.op = "enqueue_sql"
             /\ calls # <<>>
             /\ \A i \in 1..Len(calls) :
                    /\ calls[i].op = "generate_cte_pipeline_sql"
                    /\ calls[i].err = EmptyError )
           => LastCall'.ok ]_vars

\* a compose call that fails on an empty queue leaves the queue empty
FailedComposeKeepsQueue ==
    [][ ( /\ Called /\ LastCall'.op = "generate_cte_pipeline_sql"
          /\ LastCall'.err = EmptyError )
        => queue' = queue /\ queue = <<>> ]_vars

\* -------------------------------------------------------- the seed entry
\* C36: the seed entry of a newly constructed DuckDBPipeline reads the
\* relation passed to the constructor, also when the connection already
\* held a table named like the alias of that relation.
C36_SeedReadsInput ==
    (calls # <<>> /\ calls[1].op = "DuckDBPipeline")
    => \E n \in { e.name : e \in con.catalog } :
          /\ queue[1].sql = SelectFrom(n)
          /\ Reads(con, n) = {calls[1].arg.rel}

\* the seed reads a name of the connection, and reads the input whenever
\* the constructor registered it
SeedReadsRegisteredInput ==
    (calls # <<>> /\ calls[1].op = "DuckDBPipeline")
    => \E n \in { e.name : e \in con.catalog } :
          /\ queue[1].sql = SelectFrom(n)
          /\ n \in con.registered => Reads(con, n) = {calls[1].arg.rel}

\* ------------------------------------------------- the exact-match stage
\* the canonical rows equal to a fuzzy row of the stage on address and
\* postcode
ExactCanonicalOf(f) ==
    { c \in canonical_addresses :
        c.address_tokens = f.address_tokens /\ c.postcode = f.postcode }

\* C37: the exact-match stage outputs exactly one row per fuzzy row of its
\* input: a row with canonical rows equal on address and postcode is
\* resolved, with reason EXACT, to the smallest canonical id among them; a
\* row without one keeps the resolved id and the match reason it came with.
C37_ExactStageOutput ==
    (implementation = "annotate_exact_matches" /\ trie_pc = "done") =>
        /\ BagCardinality(fuzzy_with_resolved_matches)
              = Cardinality(fuzzy_addresses)
        /\ \A f \in fuzzy_addresses :
              LET out == BagRowsWithIds(fuzzy_with_resolved_matches,
                                        {f.ukam_address_id})
              IN  /\ BagCardinality(out) = 1
                  /\ \A r \in DOMAIN out :
                        /\ r.address_tokens = f.address_tokens
                        /\ r.postcode = f.postcode
                        /\ IF ExactCanonicalOf(f) # {}
                           THEN /\ r.match_reason = EXACT
                                /\ \E c \in ExactCanonicalOf(f) :
                                      /\ r.resolved_canonical_id = c.unique_id
                                      /\ \A d \in ExactCanonicalOf(f) :
                                            c.unique_id <= d.unique_id
                           ELSE /\ r.resolved_canonical_id
                                      = f.resolved_canonical_id
                                /\ r.match_reason = f.match_reason

\* the stage ran on two fuzzy rows: one equal to two canonical rows, one
\* that came in resolved by an earlier stage and has no equal canonical row
C37_Witness ==
    /\ implementation = "annotate_exact_matches" /\ trie_pc = "done"
    /\ Cardinality(fuzzy_addresses) = 2
    /\ \E f \in fuzzy_addresses : Cardinality(ExactCanonicalOf(f)) = 2
    /\ \E f \in fuzzy_addresses :
          /\ ExactCanonicalOf(f) = {}
          /\ f.resolved_canonical_id # NULL
          /\ f.match_reason = TRIE

\* --------------------------------------------------- accumulated matches
\* the accumulated entries of a row id
EntriesOf(mu, id) == BagRowsWithIds(mu.rel, {id})

\* C38: after every step of the pass the accumulated matches hold at most
\* one entry per fuzzy row id, and an entry that is present stays, unchanged
\* and once, through every later stage.
C38_AccumulatedOnce ==
    [][ /\ \A f \in df_addresses_to_match :
              BagCardinality(EntriesOf(matches_union', f.ukam_address_id))
                 <= 1
        /\ (~ matches_union.is_none) =>
              /\ ~ matches_union'.is_none
              /\ \A m \in DOMAIN matches_union.rel :
                    /\ m \in DOMAIN matches_union'.rel
                    /\ matches_union'.rel[m] = matches_union.rel[m]
                    /\ EntriesOf(matches_union', m.ukam_address_id)
                          = EntriesOf(matches_union, m.ukam_address_id) ]_vars

\* a pass with the trie stage enabled came through its second iteration
\* with the entries of two fuzzy rows accumulated by the first
C38_Witness ==
    /\ Finished
    /\ ordered = <<EXACT_MATCHES, TRIE_STAGE>>
    /\ stage_idx = 2
    /\ ~ matches_union.is_none
    /\ Cardinality(df_addresses_to_match) = 2
    /\ \A f \in df_addresses_to_match :
          BagCardinality(EntriesOf(matches_union, f.ukam_address_id)) = 1
====
